---------------------------- MODULE Spec2Model ----------------------------
(***************************************************************************)
(* A model of the SWAPI evacuation-plan program:                           *)
(*   src/sw_utilities.py   coercion helpers, combine_data, the JSON writer *)
(*   src/sw_entities.py    the entity classes and their jsonable() methods *)
(*   src/sw_assignment.py  the workflow that uses both                     *)
(*                                                                         *)
(* The module holds several specifications over one set of variables, one  *)
(* per component; each leaves the variables of the other components idle.  *)
(*   SpecCoerce  convert_str_to_float / _int / _list and is_unknown        *)
(*   SpecSer     write_custom_json with CustomEncoder                      *)
(*   SpecEnt     the entity classes: construction, assignment, jsonable()  *)
(*   SpecMerge   combine_data on two dictionaries                          *)
(*   SpecFetch   get_swapi_resource and the server                         *)
(*   SpecFilter  the loop of main() that collects uninhabited planets      *)
(*   SpecFleet   assign_crew / assign_passengers on two starships          *)
(*   SpecDump    write_custom_json on an entity of the heap                *)
(*   SpecMain    main(), step by step                                      *)
(***************************************************************************)
EXTENDS Integers, Sequences, FiniteSets, TLC

VARIABLES
    cin,     \* coercion: the value handed to the helper
    cout,    \* coercion: the outcome of the call (pending, returned, raised)
    sval,    \* serializer: the value handed to write_custom_json
    sout,    \* serializer: the outcome of the call and the document written
    heap,    \* the objects alive: instances, lists and dicts, by address
    ent,     \* entities: the address of the entity under study
    ret,     \* entities: the mapping the latest jsonable() returned (0: none)
    called,  \* entities: how often jsonable() was called (0, 1, 2)
    nops,    \* entities / merge: the mutations made so far
    seen,    \* entities: what was observed (see ObsInit)
    eerr,    \* entities: the exception the latest operation raised ("": none)
    swapi,   \* merge: the address of the dict passed as default_data
    csv,     \* merge: the address of the dict passed as override_data
    combined,\* merge: the address of the dict combine_data returned (0: none)
    snap,    \* merge: what default_data looked like before the call
    via,     \* merge: a value taken from override_data was changed in place
    fcall,   \* fetch: the arguments get_swapi_resource was called with
    gets,    \* fetch: the GET requests issued so far, in order
    fout,    \* fetch: the outcome of the call
    swapi_planets, \* filter: the planet records read from the planets file
    idx,     \* filter: how many records the loop has gone through
    uninhabited,   \* filter: the Planet instances collected so far
    pout,    \* filter: looping, written, or raised with the exception
    fleet,   \* fleet: the addresses of the starships
    calls,   \* fleet: the assign_crew / assign_passengers calls made, in order
    dout,    \* dump: the outcome of write_custom_json on the heap, and the
             \*       heap before and after it
    pc,      \* main: the step of main() that comes next
    env,     \* main: the local variables of main(), as addresses (0: unbound)
    written, \* main: the objects reachable from a value handed to
             \*       write_custom_json so far
    changed  \* main: the objects the latest step made or changed

coerceVars == <<cin, cout>>
serVars == <<sval, sout>>
entVars == <<heap, ent, ret, called, nops, seen, eerr>>
mergeVars == <<swapi, csv, combined, snap, via>>
fetchVars == <<fcall, gets, fout>>
filterVars == <<swapi_planets, idx, uninhabited, pout>>
fleetVars == <<fleet, calls>>
dumpVars == <<dout>>
mainVars == <<pc, env, written, changed>>
extVars == <<fetchVars, filterVars, fleetVars, dumpVars, mainVars>>
vars ==
    << cin, cout, sval, sout, heap, ent, ret, called, nops, seen, eerr,
       swapi, csv, combined, snap, via, extVars >>

(***************************************************************************)
(* Bounds of the model.                                                    *)
(***************************************************************************)
MaxStrLen == 3
MaxDelimLen == 2
MaxPad == 1
MaxLen == 2
MaxDepth == 5
MaxOps == 2
MaxPlanets == 3

(***************************************************************************)
(* Python values as the coercion helpers see them.  A string is a sequence *)
(* of one-character strings.  A float is the decimal n / 10^e with no      *)
(* trailing zero in its fraction; nan and inf are kinds of their own.      *)
(***************************************************************************)
PStr(s) == [k |-> "str", s |-> s, n |-> 0, e |-> 0, items |-> <<>>]
PInt(n) == [k |-> "int", s |-> <<>>, n |-> n, e |-> 0, items |-> <<>>]
PBool(b) == [k |-> "bool", s |-> <<>>, n |-> IF b THEN 1 ELSE 0, e |-> 0, items |-> <<>>]
PNone == [k |-> "none", s |-> <<>>, n |-> 0, e |-> 0, items |-> <<>>]
PNan == [k |-> "nan", s |-> <<>>, n |-> 0, e |-> 0, items |-> <<>>]
PInf(sign) == [k |-> "inf", s |-> <<>>, n |-> sign, e |-> 0, items |-> <<>>]
PList(items) == [k |-> "list", s |-> <<>>, n |-> 0, e |-> 0, items |-> items]
PDict == [k |-> "dict", s |-> <<>>, n |-> 0, e |-> 0, items |-> <<>>]
PObj == [k |-> "object", s |-> <<>>, n |-> 0, e |-> 0, items |-> <<>>]

RECURSIVE NormFloat(_, _)
NormFloat(n, e) ==
    IF e > 0 /\ n % 10 = 0 THEN NormFloat(n \div 10, e - 1)
    ELSE [k |-> "float", s |-> <<>>, n |-> n, e |-> e, items |-> <<>>]

PFloat(n, e) == NormFloat(n, e)

\* The outcome of a Python expression: a value, or an exception raised.
Ok(v) == [exc |-> "", val |-> v]
Raise(x) == [exc |-> x, val |-> PNone]

(***************************************************************************)
(* Characters.                                                             *)
(***************************************************************************)
Digits == {"0", "1", "2", "3", "4", "5", "6", "7", "8", "9"}
Whitespace == {" ", "\t", "\n"}

DigitVal(c) ==
    CASE c = "0" -> 0 [] c = "1" -> 1 [] c = "2" -> 2 [] c = "3" -> 3
      [] c = "4" -> 4 [] c = "5" -> 5 [] c = "6" -> 6 [] c = "7" -> 7
      [] c = "8" -> 8 [] c = "9" -> 9

DigitChar(d) ==
    CASE d = 0 -> "0" [] d = 1 -> "1" [] d = 2 -> "2" [] d = 3 -> "3"
      [] d = 4 -> "4" [] d = 5 -> "5" [] d = 6 -> "6" [] d = 7 -> "7"
      [] d = 8 -> "8" [] d = 9 -> "9"

\* str.lower() on one character (the letters the model's strings use).
LowerChar(c) ==
    CASE c = "A" -> "a" [] c = "F" -> "f" [] c = "I" -> "i" [] c = "K" -> "k"
      [] c = "N" -> "n" [] c = "O" -> "o" [] c = "U" -> "u" [] c = "W" -> "w"
      [] OTHER -> c

UpperChar(c) ==
    CASE c = "a" -> "A" [] c = "f" -> "F" [] c = "i" -> "I" [] c = "k" -> "K"
      [] c = "n" -> "N" [] c = "o" -> "O" [] c = "u" -> "U" [] c = "w" -> "W"
      [] OTHER -> c

PyLower(s) == [i \in 1..Len(s) |-> LowerChar(s[i])]

RECURSIVE PyLStrip(_)
PyLStrip(s) ==
    IF s # <<>> /\ s[1] \in Whitespace THEN PyLStrip(Tail(s)) ELSE s

RECURSIVE PyRStrip(_)
PyRStrip(s) ==
    IF s # <<>> /\ s[Len(s)] \in Whitespace
    THEN PyRStrip(SubSeq(s, 1, Len(s) - 1)) ELSE s

PyStrip(s) == PyRStrip(PyLStrip(s))

RECURSIVE Pow10(_)
Pow10(e) == IF e = 0 THEN 1 ELSE 10 * Pow10(e - 1)

\* The number a run of digits denotes, read left to right.
RECURSIVE DigitsValue(_, _)
DigitsValue(s, acc) ==
    IF s = <<>> THEN acc ELSE DigitsValue(Tail(s), 10 * acc + DigitVal(s[1]))

AllDigits(s) == \A i \in 1..Len(s) : s[i] \in Digits

(***************************************************************************)
(* The built-ins the helpers call.                                         *)
(***************************************************************************)
\* int(str): surrounding whitespace is dropped, then an optional sign and
\* one or more digits; anything else is a ValueError.
PyIntOfStr(s) ==
    LET t == PyStrip(s)
        signed == t # <<>> /\ t[1] \in {"-", "+"}
        body == IF signed THEN Tail(t) ELSE t
        mag == DigitsValue(body, 0)
    IN  IF body = <<>> \/ ~AllDigits(body) THEN Raise("ValueError")
        ELSE Ok(PInt(IF signed /\ t[1] = "-" THEN 0 - mag ELSE mag))

\* int(x)
PyInt(v) ==
    CASE v.k = "str" -> PyIntOfStr(v.s)
      [] v.k = "int" -> Ok(v)
      [] v.k = "bool" -> Ok(PInt(v.n))
      [] v.k = "float" ->
            Ok(PInt(IF v.n >= 0 THEN v.n \div Pow10(v.e)
                    ELSE 0 - ((0 - v.n) \div Pow10(v.e))))
      [] v.k = "nan" -> Raise("ValueError")
      [] v.k = "inf" -> Raise("OverflowError")
      [] OTHER -> Raise("TypeError")

\* The position of the first "." of s, or 0.
FirstDot(s) ==
    IF \E i \in 1..Len(s) : s[i] = "."
    THEN CHOOSE i \in 1..Len(s) : s[i] = "." /\ \A j \in 1..(i - 1) : s[j] # "."
    ELSE 0

\* float(str): whitespace dropped, optional sign, then nan / inf / infinity
\* in any case, or digits with at most one point and a digit on one side.
PyFloatOfStr(s) ==
    LET t == PyStrip(s)
        signed == t # <<>> /\ t[1] \in {"-", "+"}
        neg == signed /\ t[1] = "-"
        body == IF signed THEN Tail(t) ELSE t
        low == PyLower(body)
        dot == FirstDot(body)
        whole == IF dot = 0 THEN body ELSE SubSeq(body, 1, dot - 1)
        frac == IF dot = 0 THEN <<>> ELSE SubSeq(body, dot + 1, Len(body))
        mag == DigitsValue(whole \o frac, 0)
    IN  IF low = <<"n", "a", "n">> THEN Ok(PNan)
        ELSE IF low \in {<<"i", "n", "f">>, <<"i", "n", "f", "i", "n", "i", "t", "y">>}
        THEN Ok(PInf(IF neg THEN 0 - 1 ELSE 1))
        ELSE IF whole \o frac = <<>> \/ ~AllDigits(whole) \/ ~AllDigits(frac)
        THEN Raise("ValueError")
        ELSE Ok(PFloat(IF neg THEN 0 - mag ELSE mag, Len(frac)))

\* float(x)
PyFloat(v) ==
    CASE v.k = "str" -> PyFloatOfStr(v.s)
      [] v.k \in {"int", "bool"} -> Ok(PFloat(v.n, 0))
      [] v.k \in {"float", "nan", "inf"} -> Ok(v)
      [] OTHER -> Raise("TypeError")

\* Where sep first occurs in s, or 0.
Find(s, sep) ==
    LET hits == {i \in 1..(Len(s) - Len(sep) + 1) :
                    SubSeq(s, i, i + Len(sep) - 1) = sep}
    IN  IF hits = {} THEN 0 ELSE CHOOSE i \in hits : \A j \in hits : i <= j

\* str.split(sep) for a non-empty sep: cut at each occurrence, left to right.
RECURSIVE SplitOn(_, _)
SplitOn(s, sep) ==
    LET i == Find(s, sep)
    IN  IF i = 0 THEN <<s>>
        ELSE <<SubSeq(s, 1, i - 1)>> \o SplitOn(SubSeq(s, i + Len(sep), Len(s)), sep)

\* How many leading characters of s are not whitespace.
RECURSIVE WordLen(_)
WordLen(s) ==
    IF s = <<>> \/ s[1] \in Whitespace THEN 0 ELSE 1 + WordLen(Tail(s))

\* str.split(None): the runs of non-whitespace characters.
RECURSIVE SplitWhitespace(_)
SplitWhitespace(s) ==
    LET t == PyLStrip(s)
        n == WordLen(t)
    IN  IF t = <<>> THEN <<>>
        ELSE <<SubSeq(t, 1, n)>> \o SplitWhitespace(SubSeq(t, n + 1, Len(t)))

StrList(pieces) == PList([i \in 1..Len(pieces) |-> PStr(pieces[i])])

\* value.split(delimiter)
PySplit(v, d) ==
    IF v.k # "str" THEN Raise("AttributeError")
    ELSE IF d.k = "none" THEN Ok(StrList(SplitWhitespace(v.s)))
    ELSE IF d.k # "str" THEN Raise("TypeError")
    ELSE IF d.s = <<>> THEN Raise("ValueError")
    ELSE Ok(StrList(SplitOn(v.s, d.s)))

(***************************************************************************)
(* sw_utilities: the coercion helpers.                                     *)
(***************************************************************************)
Returned(fn, d, v) == [st |-> "returned", fn |-> fn, delim |-> d, val |-> v, exc |-> ""]
Raised(fn, d, x) == [st |-> "raised", fn |-> fn, delim |-> d, val |-> PNone, exc |-> x]
Pending == [st |-> "pending", fn |-> "", delim |-> PNone, val |-> PNone, exc |-> ""]

\* A handler that lets everything but ValueError through.
ExceptValueErrorOnly(exc) == exc = "ValueError"

\* The bare "except:" of the three converters catches every exception.
BareExcept(exc) == TRUE

\* try: return <r>  except: return value
TryOrUnchanged(fn, d, r, value) ==
    IF r.exc = "" THEN Returned(fn, d, r.val)
    ELSE IF BareExcept(r.exc) THEN Returned(fn, d, value)
    ELSE Raised(fn, d, r.exc)

convert_str_to_float(value) ==
    TryOrUnchanged("convert_str_to_float", PNone, PyFloat(value), value)

\* A converter that goes through float first, and so truncates "4.2".
convert_str_to_int_via_float(value) ==
    LET f == PyFloat(value)
    IN  TryOrUnchanged("convert_str_to_int", PNone,
                       IF f.exc = "" THEN PyInt(f.val) ELSE f, value)

convert_str_to_int(value) ==
    TryOrUnchanged("convert_str_to_int", PNone, PyInt(value), value)

\* A splitter that drops its delimiter argument: value.split().
convert_str_to_list_no_delimiter(value, delimiter) ==
    TryOrUnchanged("convert_str_to_list", delimiter, PySplit(value, PNone), value)

convert_str_to_list(value, delimiter) ==
    TryOrUnchanged("convert_str_to_list", delimiter, PySplit(value, delimiter), value)

UnknownValues == {<<"n", "/", "a">>, <<"u", "n", "k", "n", "o", "w", "n">>}

\* A test that forgets to lower-case the value.
is_unknown_case_sensitive(value) ==
    IF value.k # "str" THEN Raised("is_unknown", PNone, "AttributeError")
    ELSE Returned("is_unknown", PNone, PBool(PyStrip(value.s) \in UnknownValues))

\* A test that answers False for a value that is not a string.
is_unknown_defensive(value) ==
    IF value.k # "str" THEN Returned("is_unknown", PNone, PBool(FALSE))
    ELSE Returned("is_unknown", PNone,
                  PBool(PyStrip(PyLower(value.s)) \in UnknownValues))

is_unknown(value) ==
    IF value.k # "str" THEN Raised("is_unknown", PNone, "AttributeError")
    ELSE Returned("is_unknown", PNone,
                  PBool(PyStrip(PyLower(value.s)) \in UnknownValues))

(***************************************************************************)
(* The heap.  Python's lists, dicts and instances are objects with an      *)
(* identity: a variable or a field holds a reference, and two references   *)
(* to one object see each other's changes.  A cell is an instance (keys    *)
(* and items are its __dict__, in insertion order), a dict or a list; a    *)
(* value is None, a string or number (by its text), or a reference.        *)
(***************************************************************************)
HNone == [k |-> "none", s |-> "", a |-> 0]
HStr(s) == [k |-> "str", s |-> s, a |-> 0]
HInt(s) == [k |-> "int", s |-> s, a |-> 0]
HRef(a) == [k |-> "ref", s |-> "", a |-> a]
\* A value the JSON encoder has no encoding for (a set).
HSet == [k |-> "set", s |-> "", a |-> 0]

InstCell(cls, keys, items) == [k |-> "inst", cls |-> cls, keys |-> keys, items |-> items]
DictCell(keys, items) == [k |-> "dict", cls |-> "", keys |-> keys, items |-> items]
ListCell(items) == [k |-> "list", cls |-> "", keys |-> <<>>, items |-> items]

\* The outcome of an operation on the heap: the heap after it and the
\* address it returns (0: None).
Done(h, a) == [heap |-> h, addr |-> a, exc |-> ""]
Failed(h, x) == [heap |-> h, addr |-> 0, exc |-> x]

IndexOf(keys, key) == CHOOSE i \in 1..Len(keys) : keys[i] = key
HasKey(c, key) == \E i \in 1..Len(c.keys) : c.keys[i] = key

\* c[key], obj.key
GetItem(c, key) == c.items[IndexOf(c.keys, key)]

\* c[key] = v, obj.key = v: in place when the key is there, else at the end.
SetItem(c, key, v) ==
    IF HasKey(c, key)
    THEN [c EXCEPT !.items[IndexOf(c.keys, key)] = v]
    ELSE [c EXCEPT !.keys = Append(c.keys, key), !.items = Append(c.items, v)]

\* del c[key]
DelItem(c, key) ==
    LET i == IndexOf(c.keys, key)
        keep == [j \in 1..(Len(c.keys) - 1) |-> IF j < i THEN j ELSE j + 1]
    IN  [c EXCEPT !.keys = [j \in 1..Len(keep) |-> c.keys[keep[j]]],
                  !.items = [j \in 1..Len(keep) |-> c.items[keep[j]]]]

\* dict.update(other): other's items set one by one, in other's order.
RECURSIVE DictUpdate(_, _, _)
DictUpdate(c, keys, items) ==
    IF keys = <<>> THEN c
    ELSE DictUpdate(SetItem(c, keys[1], items[1]), Tail(keys), Tail(items))

\* list.extend(other)
ListExtend(c, items) == [c EXCEPT !.items = c.items \o items]

(***************************************************************************)
(* sw_entities: the classes.                                               *)
(***************************************************************************)
Classes ==
    { "Entity", "EvacuationPlan", "Garrison", "MilitaryBase", "Person",
      "Planet", "Species", "Starship" }

\* The attributes __init__ sets, in the order it sets them.
AttrNames(cls) ==
    CASE cls = "Entity" -> <<"url", "name">>
      [] cls = "EvacuationPlan" ->
            << "url", "name", "classification", "year_era", "description",
               "garrison_personnel_count", "num_available_transports",
               "passenger_overload_multiplier", "max_passenger_overload_capacity",
               "transport_assignments", "transport_escorts" >>
      [] cls = "Garrison" -> <<"url", "name", "commander", "personnel">>
      [] cls = "MilitaryBase" ->
            << "url", "name", "location", "operational_status", "facilities",
               "fixed_defenses", "garrison", "air_space_assets", "evacuation_plan" >>
      [] cls = "Person" ->
            <<"url", "name", "birth_year", "height", "mass", "homeworld", "species">>
      [] cls = "Planet" ->
            <<"url", "name", "gravity", "climate", "terrain", "surface_water", "population">>
      [] cls = "Species" ->
            <<"url", "name", "classification", "designation", "language">>
      [] cls = "Starship" ->
            << "url", "name", "model", "starship_class", "length",
               "max_atmosphering_speed", "hyperdrive_rating", "MGLT", "armament",
               "crew", "passengers", "consumables", "cargo_capacity",
               "crew_members", "passenger_manifest" >>

\* The attributes __init__ sets to a new empty list.
ListAttrs(cls) ==
    CASE cls = "EvacuationPlan" -> {"transport_assignments", "transport_escorts"}
      [] cls = "MilitaryBase" -> {"facilities", "fixed_defenses", "air_space_assets"}
      [] cls = "Planet" -> {"climate", "terrain"}
      [] cls = "Starship" -> {"armament", "passenger_manifest"}
      [] OTHER -> {}

\* The attributes __init__ sets to a new empty dict.
DictAttrs(cls) ==
    CASE cls = "Garrison" -> {"personnel"}
      [] cls = "Starship" -> {"crew_members"}
      [] OTHER -> {}

\* The attributes __init__ takes as arguments.
ArgAttrs(cls) ==
    IF cls = "Starship" THEN {"url", "name", "model", "starship_class"}
    ELSE {"url", "name"}

\* The keys of the dictionary literal jsonable() returns, in its order.
JsonableKeys(cls) ==
    CASE cls = "Entity" -> <<"url", "name">>
      [] cls = "EvacuationPlan" ->
            << "name", "url", "classification", "year_era", "description",
               "garrison_personnel_count", "num_available_transports",
               "passenger_overload_multiplier", "max_passenger_overload_capacity",
               "transport_assignments", "transport_escorts" >>
      [] cls = "Garrison" -> <<"url", "name", "commander", "personnel">>
      [] cls = "MilitaryBase" ->
            << "name", "url", "operational_status", "location", "facilities",
               "garrison", "fixed_defenses", "air_space_assets", "evacuation_plan" >>
      [] cls = "Person" ->
            <<"url", "name", "birth_year", "height", "mass", "homeworld", "species">>
      [] cls = "Planet" ->
            <<"url", "name", "gravity", "climate", "terrain", "surface_water", "population">>
      [] cls = "Species" ->
            <<"url", "name", "classification", "designation", "language">>
      [] cls = "Starship" ->
            << "url", "name", "model", "starship_class", "length",
               "max_atmosphering_speed", "hyperdrive_rating", "MGLT", "armament",
               "crew", "passengers", "consumables", "cargo_capacity",
               "crew_members", "passenger_manifest" >>

\* The attributes each class's docstring lists.
DocAttrs(cls) ==
    CASE cls = "Entity" -> {"url", "name"}
      [] cls = "EvacuationPlan" ->
            { "url", "name", "classification", "year_era", "description",
              "garrison_personnel_count", "num_available_transports",
              "passenger_overload_multiplier", "max_passenger_overload_capacity",
              "transport_assignments", "transport_escorts" }
      [] cls = "Garrison" -> {"url", "name", "commander", "personnel"}
      [] cls = "MilitaryBase" ->
            { "url", "name", "operational_status", "location", "facilities",
              "garrison", "fixed_defenses", "air_space_assets", "evacuation_plan" }
      [] cls = "Person" ->
            {"url", "name", "birth_year", "height", "mass", "homeworld", "species"}
      [] cls = "Planet" ->
            {"url", "name", "gravity", "climate", "terrain", "surface_water", "population"}
      [] cls = "Species" ->
            {"url", "name", "classification", "designation", "language"}
      [] cls = "Starship" ->
            { "url", "name", "model", "starship_class", "length",
              "max_atmosphering_speed", "hyperdrive_rating", "MGLT", "armament",
              "crew", "passengers", "consumables", "cargo_capacity",
              "crew_members", "passenger_manifest" }

\* cls(url, name, ...): the instance, then a cell for each [] and {} of
\* __init__.
Construct(h, cls) ==
    LET names == AttrNames(cls)
        held(i) == names[i] \in ListAttrs(cls) \cup DictAttrs(cls)
        rank(i) == Cardinality({j \in 1..i : held(j)})
        nheld == rank(Len(names))
        at == Len(h) + 1
        value(i) ==
            IF names[i] \in ArgAttrs(cls) THEN HStr(names[i])
            ELSE IF held(i) THEN HRef(at + rank(i))
            ELSE HNone
        cell(r) ==
            LET i == CHOOSE j \in 1..Len(names) : held(j) /\ rank(j) = r
            IN  IF names[i] \in ListAttrs(cls) THEN ListCell(<<>>)
                ELSE DictCell(<<>>, <<>>)
    IN  Done(h \o <<InstCell(cls, names, [i \in 1..Len(names) |-> value(i)])>>
               \o [r \in 1..nheld |-> cell(r)],
             at)

\* A jsonable() that hands out the instance's own __dict__.
jsonable_dunder_dict(h, a) == Done(h, a)

\* A jsonable() that copies __dict__ instead of naming the fields.
jsonable_dict_copy(h, a) ==
    Done(Append(h, DictCell(h[a].keys, h[a].items)), Len(h) + 1)

\* A jsonable() that also keeps its result on the instance.
jsonable_cached(h, a) ==
    LET keys == JsonableKeys(h[a].cls)
        made == Append(h, DictCell(keys, [i \in 1..Len(keys) |-> GetItem(h[a], keys[i])]))
    IN  Done([made EXCEPT ![a] = SetItem(@, "_json", HRef(Len(made)))], Len(made))

\* self.jsonable(): a new dict, built from the literal's keys and the
\* instance's attribute values as they are (a reference stays a reference).
jsonable(h, a) ==
    LET keys == JsonableKeys(h[a].cls)
    IN  IF \E i \in 1..Len(keys) : ~HasKey(h[a], keys[i])
        THEN Failed(h, "AttributeError")
        ELSE Done(Append(h, DictCell(keys,
                                     [i \in 1..Len(keys) |-> GetItem(h[a], keys[i])])),
                  Len(h) + 1)

\* An assign_crew that keeps the dict it is given as the crew.
assign_crew_rebind(h, a, crew) ==
    Done([h EXCEPT ![a] = SetItem(@, "crew_members", HRef(crew))], 0)

\* self.crew_members.update(crew)
assign_crew(h, a, crew) ==
    LET target == GetItem(h[a], "crew_members")
    IN  IF ~HasKey(h[a], "crew_members") THEN Failed(h, "AttributeError")
        ELSE IF target.k # "ref" \/ h[target.a].k # "dict"
        THEN Failed(h, "AttributeError")
        ELSE Done([h EXCEPT ![target.a] = DictUpdate(@, h[crew].keys, h[crew].items)], 0)

\* self.passenger_manifest.extend(manifest)
assign_passengers(h, a, manifest) ==
    LET target == GetItem(h[a], "passenger_manifest")
    IN  IF ~HasKey(h[a], "passenger_manifest") THEN Failed(h, "AttributeError")
        ELSE IF target.k # "ref" \/ h[target.a].k # "list"
        THEN Failed(h, "AttributeError")
        ELSE Done([h EXCEPT ![target.a] = ListExtend(@, h[manifest].items)], 0)

(***************************************************************************)
(* sw_utilities: write_custom_json on the heap.  json.dump walks the value *)
(* (lists, dicts, and through CustomEncoder.default the dict of every      *)
(* jsonable()), keeping the objects it is inside of as markers             *)
(* (check_circular).  What is modelled is the heap it leaves and the       *)
(* exception that ends it ("": none).                                      *)
(***************************************************************************)
\* CustomEncoder.default(obj): every instance on the heap is of a class
\* with a jsonable method; anything else goes to json.JSONEncoder.default,
\* which raises TypeError.
heap_default(h, v) ==
    IF v.k = "ref" /\ h[v.a].k = "inst" THEN jsonable(h, v.a)
    ELSE Failed(h, "TypeError")

RECURSIVE json_dump(_, _, _)
RECURSIVE json_dump_items(_, _, _)

\* The items of a list or dict encoded one after the other, up to the first
\* exception.
json_dump_items(h, items, markers) ==
    IF items = <<>> THEN Done(h, 0)
    ELSE LET first == json_dump(h, items[1], markers)
         IN  IF first.exc # "" THEN first
             ELSE json_dump_items(first.heap, Tail(items), markers)

json_dump(h, v, markers) ==
    IF v.k \in {"none", "str", "int"} THEN Done(h, 0)
    ELSE IF v.k = "ref" /\ v.a \in markers THEN Failed(h, "ValueError")
    ELSE IF v.k = "ref" /\ h[v.a].k \in {"list", "dict"}
    THEN json_dump_items(h, h[v.a].items, markers \cup {v.a})
    ELSE LET o == heap_default(h, v)
         IN  IF o.exc # "" THEN o
             ELSE json_dump(o.heap, HRef(o.addr), markers \cup {v.a})

\* write_custom_json(filepath, obj) for an object on the heap.
heap_write_custom_json(h, a) ==
    LET r == json_dump(h, HRef(a), {})
    IN  [ st |-> IF r.exc = "" THEN "written" ELSE "raised", exc |-> r.exc,
          before |-> h, after |-> r.heap ]

(***************************************************************************)
(* sw_assignment: the create_* functions on the heap.  Field values that   *)
(* play no part (names, numbers) are written as short strings; what is     *)
(* kept is which objects are made and which field refers to which object.  *)
(***************************************************************************)
\* obj.name1 = value1; obj.name2 = value2; ...
SetAttrs(h, a, names, values) == [h EXCEPT ![a] = DictUpdate(@, names, values)]

\* utl.convert_str_to_list(text, ', ') on the heap: the new list.
heap_split(h) == Done(Append(h, ListCell(<<HStr("a"), HStr("b")>>)), Len(h) + 1)

\* A statement that makes an object, and the statements after it: F is
\* given the heap the first leaves and the address of what it made.
Then(made, F(_, _)) == F(made.heap, made.addr)

\* create_planet(data), for the record with the url
heap_create_planet(h, url) ==
    Then(Construct(h, "Planet"), LAMBDA h1, planet :
    Then(heap_split(h1), LAMBDA h2, climate :
    Then(heap_split(h2), LAMBDA h3, terrain :
        Done(SetAttrs(h3, planet,
                      <<"url", "gravity", "climate", "terrain", "surface_water", "population">>,
                      << HStr(url), HStr("1"), HRef(climate), HRef(terrain),
                         HInt("42"), HStr("unknown") >>),
             planet))))

\* create_species(data)
heap_create_species(h) ==
    Then(Construct(h, "Species"), LAMBDA h1, species :
        Done(SetAttrs(h1, species,
                      <<"classification", "designation", "language">>,
                      <<HStr("mammal"), HStr("sentient"), HStr("basic")>>),
             species))

\* The Planet objects with the url.
known_planets(h, url) ==
    {a \in 1..Len(h) : h[a].k = "inst" /\ h[a].cls = "Planet"
                           /\ GetItem(h[a], "url") = HStr(url)}

\* A create_person that keeps one Planet per homeworld url.
heap_create_person_shared(h, homeworld) ==
    Then(Construct(h, "Person"), LAMBDA h1, person :
    Then(IF known_planets(h, homeworld) # {}
         THEN Done(h1, CHOOSE a \in known_planets(h, homeworld) : TRUE)
         ELSE heap_create_planet(h1, homeworld), LAMBDA h2, planet :
    Then(heap_create_species(h2), LAMBDA h3, species :
        Done(SetAttrs(h3, person,
                      <<"birth_year", "height", "mass", "homeworld", "species">>,
                      << HStr("19BBY"), HInt("150.0"), HInt("49.0"),
                         HRef(planet), HRef(species) >>),
             person))))

\* create_person(data), for a person whose homeworld has the url: a new
\* Planet and a new Species for every person.
heap_create_person(h, homeworld) ==
    Then(Construct(h, "Person"), LAMBDA h1, person :
    Then(heap_create_planet(h1, homeworld), LAMBDA h2, planet :
    Then(heap_create_species(h2), LAMBDA h3, species :
        Done(SetAttrs(h3, person,
                      <<"birth_year", "height", "mass", "homeworld", "species">>,
                      << HStr("19BBY"), HInt("150.0"), HInt("49.0"),
                         HRef(planet), HRef(species) >>),
             person))))

\* create_starship(data)
heap_create_starship(h) ==
    Then(Construct(h, "Starship"), LAMBDA h1, starship :
    Then(heap_split(h1), LAMBDA h2, armament :
        Done(SetAttrs(h2, starship,
                      << "length", "max_atmosphering_speed", "hyperdrive_rating", "MGLT",
                         "armament", "crew", "passengers", "consumables", "cargo_capacity" >>,
                      << HInt("12.5"), HInt("1050.0"), HInt("1.0"), HInt("100"),
                         HRef(armament), HInt("1"), HInt("90"), HStr("1 week"),
                         HInt("110") >>),
             starship)))

\* {role: create_person(...), ...}: a person for each role, then the dict.
RECURSIVE heap_crew(_, _, _, _)
heap_crew(h, roles, homeworlds, persons) ==
    IF Len(persons) = Len(roles)
    THEN Done(Append(h, DictCell(roles, persons)), Len(h) + 1)
    ELSE Then(heap_create_person(h, homeworlds[Len(persons) + 1]), LAMBDA h1, person :
             heap_crew(h1, roles, homeworlds, Append(persons, HRef(person))))

\* x_wing_instance = create_starship(x_wing_combined) in 8.5.4, the name
\* being bound to the starship of 8.4, but kept instead of bound anew.
x_wing_starship_kept(h, bound) == Done(h, bound)

\* x_wing_instance = create_starship(x_wing_combined) in 8.5.4: a new
\* starship, whatever the name was bound to.
x_wing_starship(h, bound) == heap_create_starship(h)

\* echo_base_data = utl.read_json('sw_echo_base-v1p0.json'): the lists and
\* dicts of the document that main() hands on, and a dict holding them (the
\* nesting of the document is flattened).
read_echo_base(h) ==
    LET n == Len(h)
    IN  Done(h \o << DictCell(<<"soldiers">>, <<HInt("1")>>),
                     ListCell(<<HStr("hangar")>>),
                     ListCell(<<HStr("shield")>>),
                     DictCell(<<"type">>, <<HStr("x-wing")>>),
                     ListCell(<<HRef(n + 4)>>),
                     ListCell(<<>>),
                     ListCell(<<>>),
                     DictCell(<< "personnel", "facilities", "fixed_defenses",
                                 "air_space_assets", "transport_passenger_assignments",
                                 "transport_escorts" >>,
                              << HRef(n + 1), HRef(n + 2), HRef(n + 3), HRef(n + 5),
                                 HRef(n + 6), HRef(n + 7) >>) >>,
             n + 8)

\* list.append(x) on the list the object at address a holds in the field
append_to(h, a, field, v) ==
    [h EXCEPT ![GetItem(h[a], field).a] = ListExtend(@, <<v>>)]

(***************************************************************************)
(* What a value looks like from outside: lists and dicts by their content  *)
(* (Python's == on them), instances by their identity.                     *)
(***************************************************************************)
RECURSIVE Look(_, _)
Look(h, v) ==
    IF v.k # "ref" THEN [k |-> v.k, s |-> v.s, a |-> 0, keys |-> <<>>, items |-> <<>>]
    ELSE IF h[v.a].k = "inst"
    THEN [k |-> "inst", s |-> h[v.a].cls, a |-> v.a, keys |-> <<>>, items |-> <<>>]
    ELSE [k |-> h[v.a].k, s |-> "", a |-> 0, keys |-> h[v.a].keys,
          items |-> [i \in 1..Len(h[v.a].items) |-> Look(h, h[v.a].items[i])]]

\* The mapping at address a, whichever cell holds it: its keys and the look
\* of its values.
LookMapping(h, a) ==
    [k |-> "dict", s |-> "", a |-> 0, keys |-> h[a].keys,
     items |-> [i \in 1..Len(h[a].items) |-> Look(h, h[a].items[i])]]

NoLook == [k |-> "none", s |-> "", a |-> 0, keys |-> <<>>, items |-> <<>>]

(***************************************************************************)
(* sw_utilities: combine_data.                                             *)
(***************************************************************************)
\* The addresses the cells at the addresses S refer to.
Refs(h, S) ==
    UNION { {h[a].items[i].a : i \in {j \in 1..Len(h[a].items) : h[a].items[j].k = "ref"}}
            : a \in S }

\* The objects reachable from the addresses S, S included.
RECURSIVE Reach(_, _)
Reach(h, S) ==
    LET N == S \cup Refs(h, S)
    IN  IF N = S THEN S ELSE Reach(h, N)

\* copy.copy(x): a new object holding the same references.
copy_copy(h, a) == Done(Append(h, h[a]), Len(h) + 1)

\* copy.deepcopy(x): a new object for every object reachable from x, one
\* per original (the memo), holding the copies of what the original holds.
deepcopy(h, a) ==
    LET R == Reach(h, {a})
        rank(x) == Cardinality({y \in R : y <= x})
        new(x) == Len(h) + rank(x)
        copied(v) == IF v.k = "ref" THEN HRef(new(v.a)) ELSE v
        cell(r) ==
            LET x == CHOOSE y \in R : rank(y) = r
            IN  [h[x] EXCEPT !.items = [i \in 1..Len(h[x].items) |-> copied(h[x].items[i])]]
    IN  Done(h \o [r \in 1..Cardinality(R) |-> cell(r)], new(a))

\* data = copy.deepcopy(default_data); data.update(override_data); return data
combine_data(h, default_data, override_data) ==
    LET data == deepcopy(h, default_data)
    IN  Done([data.heap EXCEPT ![data.addr] =
                 DictUpdate(@, h[override_data].keys, h[override_data].items)],
             data.addr)

(***************************************************************************)
(* sw_utilities: get_swapi_resource.  Arguments are written as their       *)
(* Python text; "None" is an argument that is not passed.                  *)
(***************************************************************************)
\* "if params:": None and the empty dict are false.
Truthy(params) == params \notin {"None", "{}"}

\* requests.get(url, params=None, **kwargs): the request that goes out.
requests_get(url, params, timeout) ==
    [url |-> url, params |-> params, timeout |-> timeout]

\* The requests.get call get_swapi_resource makes: with the query string
\* when there is one, and in neither branch with the timeout.
get_swapi_resource_request(url, params, timeout) ==
    IF Truthy(params) THEN requests_get(url, params, "None")
    ELSE requests_get(url, "None", "None")

(***************************************************************************)
(* sw_assignment: create_planet and the loop that collects the planets     *)
(* with an unknown population.  A planet record and a Planet are written   *)
(* as records of the helpers' values.                                      *)
(***************************************************************************)
\* The delimiter create_planet splits climate and terrain on: ', '
CommaSpace == PStr(<<",", " ">>)

create_planet(data) ==
    [ url |-> data.url,
      name |-> data.name,
      gravity |-> data.gravity,
      climate |-> convert_str_to_list(data.climate, CommaSpace).val,
      terrain |-> convert_str_to_list(data.terrain, CommaSpace).val,
      surface_water |-> convert_str_to_int(data.surface_water).val,
      population |-> convert_str_to_int(data.population).val ]

\* A loop body that keeps the planets whose population is known.
locate_uninhabited_inverted(list, planet_dictionary) ==
    LET test == is_unknown(planet_dictionary.population)
    IN  IF test.st = "raised" THEN [list |-> list, exc |-> test.exc]
        ELSE IF test.val = PBool(FALSE)
        THEN [list |-> Append(list, create_planet(planet_dictionary)), exc |-> ""]
        ELSE [list |-> list, exc |-> ""]

\* The body of the loop over swapi_planets: the list after it, or the
\* exception that ends main().
locate_uninhabited(list, planet_dictionary) ==
    LET test == is_unknown(planet_dictionary.population)
    IN  IF test.st = "raised" THEN [list |-> list, exc |-> test.exc]
        ELSE IF test.val = PBool(TRUE)
        THEN [list |-> Append(list, create_planet(planet_dictionary)), exc |-> ""]
        ELSE [list |-> list, exc |-> ""]

(***************************************************************************)
(* The inputs the coercion specification draws from.                       *)
(***************************************************************************)
SeqsUpTo(A, n) == UNION {[1..m -> A] : m \in 0..n}

Alphabet == {"4", "2", ".", "-", " ", "a", ","}
DelimAlphabet == {",", " "}

\* The strings the spec's examples use.
ExampleStrings ==
    { <<"1", "2", ".", "5">>, <<"a", "b", "c">>, <<"4", "2">>, <<"4", ".", "2">>,
      <<"a", ",", " ", "b", ",", " ", "c">>, <<"n", "a", "n">>, <<"I", "n", "f">>,
      <<"-", "i", "n", "f">>, <<" ", "0", "4", "2", "\n">>, <<"+", "7">>,
      <<"p", "o", "p", "u", "l", "a", "t", "e", "d">> }

\* Each letter of t at a position of S in upper case.
Upcase(t, S) == [i \in 1..Len(t) |-> IF i \in S THEN UpperChar(t[i]) ELSE t[i]]

CaseMasks(t) == {{}, 1..Len(t), {1}, {Len(t)}, {2, 3}}

\* Strings that are not a token: a token cut short, lengthened, doubled or
\* broken by inner whitespace, and the empty string.
NearMisses ==
    { <<>>, <<"u", "n", "k", "n", "o", "w">>, <<"u", "n", "k", "n", "o", "w", "n", "s">>,
      <<"n", "/", "a", "n", "/", "a">>, <<"n", "/", "a", " ", "n", "/", "a">>,
      <<"u", "n", " ", "k", "n", "o", "w", "n">>, <<"n", " ", "/", "a">>,
      <<"n", "a">>, <<"k", "n", "o", "w", "n">>, <<"/">>,
      <<"n", "/", "a", ",", "u", "n", "k", "n", "o", "w", "n">> }

UnknownBodies ==
    UNION {{Upcase(t, S) : S \in CaseMasks(t)} : t \in UnknownValues \cup NearMisses}

UnknownStrings ==
    {pre \o body \o post :
        pre \in SeqsUpTo(Whitespace, MaxPad),
        body \in UnknownBodies,
        post \in SeqsUpTo(Whitespace, MaxPad)}

NonStrings ==
    { PNone, PBool(TRUE), PBool(FALSE), PInt(42), PInt(0 - 7), PFloat(42, 1),
      PFloat(0 - 49, 1), PFloat(3, 0), PNan, PInf(1),
      PList(<<>>), PList(<<PStr(<<"a">>), PStr(<<"b">>)>>), PDict, PObj }

CoerceInputs ==
    {PStr(s) : s \in SeqsUpTo(Alphabet, MaxStrLen) \cup ExampleStrings \cup UnknownStrings}
        \cup NonStrings

Delimiters ==
    {PStr(s) : s \in SeqsUpTo(DelimAlphabet, MaxDelimLen)} \cup {PNone, PInt(1)}


(***************************************************************************)
(* Python values as the JSON encoder sees them, and JSON documents.  An    *)
(* object carries what hasattr/callable find of its jsonable attribute     *)
(* (s), the value its jsonable() returns (items[1]) and its own __dict__   *)
(* (items[2]).                                                             *)
(***************************************************************************)
JStr(s) == [k |-> "str", s |-> s, keys |-> <<>>, items |-> <<>>]
JInt(s) == [k |-> "int", s |-> s, keys |-> <<>>, items |-> <<>>]
JBool(s) == [k |-> "bool", s |-> s, keys |-> <<>>, items |-> <<>>]
JNone == [k |-> "none", s |-> "", keys |-> <<>>, items |-> <<>>]
JList(items) == [k |-> "list", s |-> "", keys |-> <<>>, items |-> items]
JTuple(items) == [k |-> "tuple", s |-> "", keys |-> <<>>, items |-> items]
JDict(keys, items) == [k |-> "dict", s |-> "", keys |-> keys, items |-> items]
JSet == [k |-> "set", s |-> "", keys |-> <<>>, items |-> <<>>]
JObj(jsonableAttr, form, dict) ==
    [k |-> "obj", s |-> jsonableAttr, keys |-> <<>>, items |-> <<form, dict>>]

DString(s) == [k |-> "string", s |-> s, keys |-> <<>>, items |-> <<>>]
DNumber(s) == [k |-> "number", s |-> s, keys |-> <<>>, items |-> <<>>]
DLiteral(s) == [k |-> "literal", s |-> s, keys |-> <<>>, items |-> <<>>]
DArray(items) == [k |-> "array", s |-> "", keys |-> <<>>, items |-> items]
DObject(keys, items) == [k |-> "object", s |-> "", keys |-> keys, items |-> items]
DError(exc) == [k |-> "error", s |-> exc, keys |-> <<>>, items |-> <<>>]

(***************************************************************************)
(* sw_utilities: CustomEncoder and write_custom_json.                      *)
(***************************************************************************)
\* json.JSONEncoder.default: raises TypeError for every object.
JSONEncoder_default(obj) == [exc |-> "TypeError", val |-> JNone]

\* A hook that returns the object's __dict__ instead of calling jsonable().
CustomEncoder_default_dict(obj) ==
    IF obj.k = "obj" /\ obj.s = "callable"
    THEN [exc |-> "", val |-> obj.items[2]]
    ELSE JSONEncoder_default(obj)

\* A hook that falls back to str(obj) instead of the base class's default.
CustomEncoder_default_str(obj) ==
    IF obj.k = "obj" /\ obj.s = "callable"
    THEN [exc |-> "", val |-> obj.items[1]]
    ELSE [exc |-> "", val |-> JStr("<object>")]

\* hasattr(obj, 'jsonable') and callable(obj.jsonable): obj.jsonable(),
\* else the base class's default.
CustomEncoder_default(obj) ==
    IF obj.k = "obj" /\ obj.s # "absent" /\ obj.s = "callable"
    THEN [exc |-> "", val |-> obj.items[1]]
    ELSE JSONEncoder_default(obj)

\* The first error among encoded children, if any.
FirstError(docs) ==
    LET bad == {i \in 1..Len(docs) : docs[i].k = "error"}
    IN  IF bad = {} THEN DError("")
        ELSE docs[CHOOSE i \in bad : \A j \in bad : i <= j]

\* json's encoder with cls=CustomEncoder: the built-in types by their
\* shape, anything else through default() and then encoded in turn.
RECURSIVE Encode(_)
Encode(o) ==
    CASE o.k = "str" -> DString(o.s)
      [] o.k = "int" -> DNumber(o.s)
      [] o.k = "bool" -> DLiteral(o.s)
      [] o.k = "none" -> DLiteral("null")
      [] o.k \in {"list", "tuple"} ->
            LET docs == [i \in 1..Len(o.items) |-> Encode(o.items[i])]
            IN  IF FirstError(docs).s # "" THEN FirstError(docs) ELSE DArray(docs)
      [] o.k = "dict" ->
            LET docs == [i \in 1..Len(o.items) |-> Encode(o.items[i])]
            IN  IF FirstError(docs).s # "" THEN FirstError(docs)
                ELSE DObject(o.keys, docs)
      [] OTHER ->
            LET d == CustomEncoder_default(o)
            IN  IF d.exc # "" THEN DError(d.exc) ELSE Encode(d.val)

SerPending == [st |-> "pending", doc |-> DLiteral("null"), exc |-> ""]

\* json.dump(obj, file_obj, cls=CustomEncoder, ...) into the opened file.
write_custom_json(obj) ==
    LET doc == Encode(obj)
    IN  IF doc.k = "error"
        THEN [st |-> "raised", doc |-> DLiteral("null"), exc |-> doc.s]
        ELSE [st |-> "written", doc |-> doc, exc |-> ""]

(***************************************************************************)
(* The values the serializer specification draws from.                     *)
(***************************************************************************)
KeyNames == <<"url", "name", "model", "crew", "cargo">>

Atoms == {JStr("u"), JInt("1"), JNone}

\* Values json cannot encode: a set, an object without a jsonable
\* attribute, an object whose jsonable attribute is not callable.
Unsupported ==
    { JSet,
      JObj("absent", JNone, JDict(<<"url">>, <<JStr("u")>>)),
      JObj("notcallable", JNone, JDict(<<"jsonable">>, <<JStr("u")>>)) }

Leaves == Atoms \cup Unsupported

\* __dict__ of an object whose jsonable() returns form: the same fields,
\* or fields of its own, one of them a value json cannot encode.
DictsFor(form) == {form, JDict(<<"url", "_cache">>, <<JStr("other"), JSet>>)}

ListsOver(S) == {JList(t) : t \in SeqsUpTo(S, MaxLen)}
DictsOver(S) == {JDict(SubSeq(KeyNames, 1, Len(t)), t) : t \in SeqsUpTo(S, MaxLen)}
ObjsOver(S) == UNION {{JObj("callable", f, d) : d \in DictsFor(f)} : f \in DictsOver(S)}

Flat ==
    Leaves \cup ListsOver(Leaves) \cup {JTuple(<<v>>) : v \in Leaves}
        \cup DictsOver(Leaves) \cup ObjsOver(Leaves)

\* How deep v nests: 0 for a primitive, one more for each sequence,
\* mapping or object around it (an object nests its jsonable() result).
RECURSIVE Depth(_)
Depth(v) ==
    LET inner == IF v.k = "obj" THEN <<v.items[1]>> ELSE v.items
        ds == {Depth(inner[i]) : i \in 1..Len(inner)}
    IN  IF v.k \in {"list", "tuple", "dict", "obj"}
        THEN 1 + (IF ds = {} THEN 0 ELSE CHOOSE d \in ds : \A x \in ds : x <= d)
        ELSE 0

\* One more level around v: v in a list, under a key, and as a field of an
\* object's jsonable() result.
Wrappers(v) ==
    { JList(<<v>>),
      JDict(<<"name">>, <<v>>),
      JObj("callable", JDict(<<"url", "name">>, <<JStr("u"), v>>),
           JDict(<<"_cache">>, <<JSet>>)) }

SerInputs == Flat

(***************************************************************************)
(* What a component's variables hold while another component runs.         *)
(***************************************************************************)
CoerceIdle == cin = PNone /\ cout = Pending
SerIdle == sval = JNone /\ sout = SerPending

\* What has been observed of the entity: the look of the mapping the first
\* and the latest jsonable() returned, as it was on return; the look of the
\* entity's fields when the entity's own operations last changed it;
\* whether those operations ran after the first call; whether the returned
\* mapping's keys were changed; whether a list or dict reached through the
\* returned mapping was changed.
ObsIdle ==
    [first |-> NoLook, last |-> NoLook, base |-> NoLook,
     touched |-> FALSE, tampered |-> FALSE, reached |-> FALSE]

EntIdle ==
    /\ heap = <<>>
    /\ ent = 0
    /\ ret = 0
    /\ called = 0
    /\ nops = 0
    /\ seen = ObsIdle
    /\ eerr = ""

MergeIdle ==
    /\ swapi = 0
    /\ csv = 0
    /\ combined = 0
    /\ snap = NoLook
    /\ via = FALSE

FetchPending == [st |-> "pending", exc |-> ""]

FetchIdle ==
    /\ fcall = [url |-> "", params |-> "None", timeout |-> "None"]
    /\ gets = <<>>
    /\ fout = FetchPending

FilterLooping == [st |-> "looping", exc |-> ""]

FilterIdle ==
    /\ swapi_planets = <<>>
    /\ idx = 0
    /\ uninhabited = <<>>
    /\ pout = FilterLooping

FleetIdle == fleet = <<>> /\ calls = <<>>

DumpPending == [st |-> "pending", exc |-> "", before |-> <<>>, after |-> <<>>]

DumpIdle == dout = DumpPending

\* The local variables of main() that hold objects.
Unbound ==
    [ uninhabited |-> 0, leia_organa |-> 0, x_wing_instance |-> 0,
      echo_base_data |-> 0, echo_base |-> 0, planet_instance |-> 0,
      garrison_instance |-> 0, evac_plan_instance |-> 0, gr_75_instance |-> 0,
      crew |-> 0, manifest |-> 0, mill_falcon_instance |-> 0 ]

MainIdle ==
    /\ pc = ""
    /\ env = Unbound
    /\ written = {}
    /\ changed = {}

ExtIdle == FetchIdle /\ FilterIdle /\ FleetIdle /\ DumpIdle /\ MainIdle

(***************************************************************************)
(* SpecCoerce: one helper applied to one input.                            *)
(***************************************************************************)
InitCoerce ==
    /\ cin \in CoerceInputs
    /\ cout = Pending
    /\ SerIdle
    /\ EntIdle
    /\ MergeIdle
    /\ ExtIdle

CallConvertStrToFloat ==
    /\ cout.st = "pending"
    /\ cout' = convert_str_to_float(cin)
    /\ UNCHANGED <<cin, serVars, entVars, mergeVars, extVars>>

CallConvertStrToInt ==
    /\ cout.st = "pending"
    /\ cout' = convert_str_to_int(cin)
    /\ UNCHANGED <<cin, serVars, entVars, mergeVars, extVars>>

CallConvertStrToList ==
    /\ cout.st = "pending"
    /\ \E d \in Delimiters : cout' = convert_str_to_list(cin, d)
    /\ UNCHANGED <<cin, serVars, entVars, mergeVars, extVars>>

CallIsUnknown ==
    /\ cout.st = "pending"
    /\ cout' = is_unknown(cin)
    /\ UNCHANGED <<cin, serVars, entVars, mergeVars, extVars>>

NextCoerce ==
    \/ CallConvertStrToFloat
    \/ CallConvertStrToInt
    \/ CallConvertStrToList
    \/ CallIsUnknown

SpecCoerce == InitCoerce /\ [][NextCoerce]_vars

(***************************************************************************)
(* SpecSer: one value written with write_custom_json.                      *)
(***************************************************************************)
InitSer ==
    /\ sval \in SerInputs
    /\ sout = SerPending
    /\ CoerceIdle
    /\ EntIdle
    /\ MergeIdle
    /\ ExtIdle

\* The caller puts the value inside a larger one before writing it.
Nest ==
    /\ sout.st = "pending"
    /\ \E w \in Wrappers(sval) :
          /\ Depth(w) <= MaxDepth
          /\ sval' = w
    /\ UNCHANGED <<sout, coerceVars, entVars, mergeVars, extVars>>

WriteCustomJson ==
    /\ sout.st = "pending"
    /\ sout' = write_custom_json(sval)
    /\ UNCHANGED <<sval, coerceVars, entVars, mergeVars, extVars>>

NextSer ==
    \/ Nest
    \/ WriteCustomJson

SpecSer == InitSer /\ [][NextSer]_vars

(***************************************************************************)
(* SpecEnt: one entity of any class, changed by assignment and by          *)
(* assign_crew / assign_passengers, and asked twice for its jsonable()     *)
(* mapping, which the caller may change in between.  The second call ends  *)
(* the scenario.                                                           *)
(***************************************************************************)
Roles == {"pilot", "co-pilot"}

\* The entity's own operations changed it: note its fields, and whether
\* that was after the first jsonable().
Changed(h) ==
    [seen EXCEPT !.base = LookMapping(h, ent), !.touched = @ \/ called > 0]

InitEnt ==
    /\ \E cls \in Classes :
          LET p == Construct(<<>>, "Person")
              e == Construct(p.heap, cls)
          IN  /\ heap = e.heap
              /\ ent = e.addr
              /\ seen = [ObsIdle EXCEPT !.base = LookMapping(e.heap, e.addr)]
    /\ ret = 0
    /\ called = 0
    /\ nops = 0
    /\ eerr = ""
    /\ CoerceIdle
    /\ SerIdle
    /\ MergeIdle
    /\ ExtIdle

\* entity.<attribute> = "new", for an attribute of the class
SetField ==
    /\ nops < MaxOps /\ called < 2
    /\ \E i \in 1..Len(AttrNames(heap[ent].cls)) :
          heap' = [heap EXCEPT ![ent] = SetItem(@, AttrNames(heap[ent].cls)[i], HStr("new"))]
    /\ seen' = Changed(heap')
    /\ nops' = nops + 1
    /\ eerr' = ""
    /\ UNCHANGED <<ent, ret, called, coerceVars, serVars, mergeVars, extVars>>

\* entity.<attribute> = ["new"], for a list attribute of the class
SetFieldToList ==
    /\ nops < MaxOps /\ called < 2
    /\ \E f \in ListAttrs(heap[ent].cls) :
          heap' = [Append(heap, ListCell(<<HStr("new")>>))
                      EXCEPT ![ent] = SetItem(@, f, HRef(Len(heap) + 1))]
    /\ seen' = Changed(heap')
    /\ nops' = nops + 1
    /\ eerr' = ""
    /\ UNCHANGED <<ent, ret, called, coerceVars, serVars, mergeVars, extVars>>

\* entity.callsign = "new": an attribute the class does not declare
SetUndeclared ==
    /\ nops < MaxOps /\ called < 2
    /\ heap' = [heap EXCEPT ![ent] = SetItem(@, "callsign", HStr("new"))]
    /\ seen' = Changed(heap')
    /\ nops' = nops + 1
    /\ eerr' = ""
    /\ UNCHANGED <<ent, ret, called, coerceVars, serVars, mergeVars, extVars>>

\* starship.assign_crew({role: person})
AssignCrew ==
    /\ nops < MaxOps /\ called < 2
    /\ heap[ent].cls = "Starship"
    /\ \E role \in Roles :
          LET crew == Append(heap, DictCell(<<role>>, <<HRef(1)>>))
              r == assign_crew(crew, ent, Len(crew))
          IN  heap' = r.heap /\ eerr' = r.exc
    /\ seen' = Changed(heap')
    /\ nops' = nops + 1
    /\ UNCHANGED <<ent, ret, called, coerceVars, serVars, mergeVars, extVars>>

\* starship.assign_passengers([person])
AssignPassengers ==
    /\ nops < MaxOps /\ called < 2
    /\ heap[ent].cls = "Starship"
    /\ LET manifest == Append(heap, ListCell(<<HRef(1)>>))
           r == assign_passengers(manifest, ent, Len(manifest))
       IN  heap' = r.heap /\ eerr' = r.exc
    /\ seen' = Changed(heap')
    /\ nops' = nops + 1
    /\ UNCHANGED <<ent, ret, called, coerceVars, serVars, mergeVars, extVars>>

\* result = entity.jsonable()
CallJsonable ==
    /\ called < 2
    /\ LET r == jsonable(heap, ent)
       IN  /\ heap' = r.heap
           /\ eerr' = r.exc
           /\ ret' = r.addr
           /\ seen' = IF r.exc # "" THEN seen
                      ELSE [seen EXCEPT
                               !.first = IF called = 0 THEN LookMapping(r.heap, r.addr) ELSE @,
                               !.last = LookMapping(r.heap, r.addr)]
    /\ called' = called + 1
    /\ UNCHANGED <<ent, nops, coerceVars, serVars, mergeVars, extVars>>

\* The keys the caller picks to delete or replace: the first and the last.
EndsOf(keys) == {i \in 1..Len(keys) : i = 1 \/ i = Len(keys)}

\* del result[key]
TamperDelete ==
    /\ nops < MaxOps /\ called = 1 /\ ret # 0
    /\ \E i \in EndsOf(heap[ret].keys) :
          heap' = [heap EXCEPT ![ret] = DelItem(@, heap[ret].keys[i])]
    /\ seen' = [seen EXCEPT !.tampered = TRUE]
    /\ nops' = nops + 1
    /\ UNCHANGED <<ent, ret, called, eerr, coerceVars, serVars, mergeVars, extVars>>

\* result[key] = "tampered", for a key of the mapping
TamperReplace ==
    /\ nops < MaxOps /\ called = 1 /\ ret # 0
    /\ \E i \in EndsOf(heap[ret].keys) :
          heap' = [heap EXCEPT ![ret] = SetItem(@, heap[ret].keys[i], HStr("tampered"))]
    /\ seen' = [seen EXCEPT !.tampered = TRUE]
    /\ nops' = nops + 1
    /\ UNCHANGED <<ent, ret, called, eerr, coerceVars, serVars, mergeVars, extVars>>

\* result["extra"] = "tampered"
TamperAdd ==
    /\ nops < MaxOps /\ called = 1 /\ ret # 0
    /\ heap' = [heap EXCEPT ![ret] = SetItem(@, "extra", HStr("tampered"))]
    /\ seen' = [seen EXCEPT !.tampered = TRUE]
    /\ nops' = nops + 1
    /\ UNCHANGED <<ent, ret, called, eerr, coerceVars, serVars, mergeVars, extVars>>

\* result[key].append("intruder") for a list under a key of the mapping,
\* result[key]["intruder"] = "intruder" for a dict
ReachThrough ==
    /\ nops < MaxOps /\ called = 1 /\ ret # 0
    /\ \E i \in 1..Len(heap[ret].keys) :
          LET v == heap[ret].items[i]
          IN  /\ v.k = "ref"
              /\ heap[v.a].k \in {"list", "dict"}
              /\ heap' = [heap EXCEPT ![v.a] =
                            IF @.k = "list" THEN ListExtend(@, <<HStr("intruder")>>)
                            ELSE SetItem(@, "intruder", HStr("intruder"))]
    /\ seen' = [seen EXCEPT !.reached = TRUE]
    /\ nops' = nops + 1
    /\ UNCHANGED <<ent, ret, called, eerr, coerceVars, serVars, mergeVars, extVars>>

NextEnt ==
    \/ SetField
    \/ SetFieldToList
    \/ SetUndeclared
    \/ AssignCrew
    \/ AssignPassengers
    \/ CallJsonable
    \/ TamperDelete
    \/ TamperReplace
    \/ TamperAdd
    \/ ReachThrough

SpecEnt == InitEnt /\ [][NextEnt]_vars

(***************************************************************************)
(* SpecMerge: two dictionaries combined with combine_data; the caller then *)
(* assigns to keys of the result and changes lists and dicts it reaches    *)
(* through the result.                                                     *)
(***************************************************************************)
DefaultKeys == <<"a", "b">>
OverrideKeys == <<"b", "c">>
ResultKeys == {"a", "b", "c"}

\* What a key of default_data holds: nothing, a number, a list, a dict
\* holding a list.
DefaultKinds == {"absent", "int", "list", "deep"}

\* What a key of override_data holds: nothing, a number, a dict, or the very
\* object default_data holds under "b".
OverrideKinds == {"absent", "int", "dict", "shared"}

\* A value of the kind, and the heap with the objects it needs.
NewValue(h, kind, other) ==
    CASE kind = "int" -> [heap |-> h, val |-> HInt("1")]
      [] kind = "list" ->
            [heap |-> Append(h, ListCell(<<HInt("1")>>)), val |-> HRef(Len(h) + 1)]
      [] kind = "dict" ->
            [heap |-> Append(h, DictCell(<<"x">>, <<HInt("2")>>)), val |-> HRef(Len(h) + 1)]
      [] kind = "deep" ->
            [heap |-> h \o <<ListCell(<<HInt("1")>>), DictCell(<<"x">>, <<HRef(Len(h) + 1)>>)>>,
             val |-> HRef(Len(h) + 2)]
      [] kind = "shared" -> [heap |-> h, val |-> GetItem(h[other], "b")]

\* The dict {keys[i]: a value of kinds[i]}, keys of kind "absent" left out.
RECURSIVE NewDict(_, _, _, _, _)
NewDict(h, c, keys, kinds, other) ==
    IF keys = <<>> THEN Done(Append(h, c), Len(h) + 1)
    ELSE IF kinds[1] = "absent" THEN NewDict(h, c, Tail(keys), Tail(kinds), other)
    ELSE LET n == NewValue(h, kinds[1], other)
         IN  NewDict(n.heap, SetItem(c, keys[1], n.val), Tail(keys), Tail(kinds), other)

InitMerge ==
    /\ \E da, db \in DefaultKinds, ob, oc \in OverrideKinds :
          /\ "shared" \in {ob, oc} => db \in {"list", "deep"}
          /\ LET d == NewDict(<<>>, DictCell(<<>>, <<>>), DefaultKeys, <<da, db>>, 0)
                 o == NewDict(d.heap, DictCell(<<>>, <<>>), OverrideKeys, <<ob, oc>>, d.addr)
             IN  /\ heap = o.heap
                 /\ swapi = d.addr
                 /\ csv = o.addr
                 /\ snap = Look(o.heap, HRef(d.addr))
    /\ combined = 0
    /\ via = FALSE
    /\ ent = 0
    /\ ret = 0
    /\ called = 0
    /\ nops = 0
    /\ seen = ObsIdle
    /\ eerr = ""
    /\ CoerceIdle
    /\ SerIdle
    /\ ExtIdle

\* combined = combine_data(swapi, csv)
CombineData ==
    /\ combined = 0
    /\ LET r == combine_data(heap, swapi, csv)
       IN  heap' = r.heap /\ combined' = r.addr
    /\ UNCHANGED <<swapi, csv, snap, via, ent, ret, called, nops, seen, eerr,
                   coerceVars, serVars, extVars>>

\* The object at address x changed in place: list.append("intruder"),
\* dict["intruder"] = "intruder".
ChangeInPlace(h, x) ==
    [h EXCEPT ![x] = IF @.k = "list" THEN ListExtend(@, <<HStr("intruder")>>)
                     ELSE SetItem(@, "intruder", HStr("intruder"))]

\* combined[key] = "new"
SetResultItem ==
    /\ combined # 0 /\ nops < MaxOps
    /\ \E key \in ResultKeys :
          heap' = [heap EXCEPT ![combined] = SetItem(@, key, HStr("new"))]
    /\ nops' = nops + 1
    /\ UNCHANGED <<mergeVars, ent, ret, called, seen, eerr, coerceVars, serVars, extVars>>

\* A list or dict reached through combined[key] is changed in place, for a
\* key that override_data does not have.
ChangeTakenFromDefault ==
    /\ combined # 0 /\ nops < MaxOps
    /\ \E i \in 1..Len(heap[combined].keys) :
          /\ ~HasKey(heap[csv], heap[combined].keys[i])
          /\ heap[combined].items[i].k = "ref"
          /\ \E x \in Reach(heap, {heap[combined].items[i].a}) :
                heap' = ChangeInPlace(heap, x)
    /\ nops' = nops + 1
    /\ UNCHANGED <<mergeVars, ent, ret, called, seen, eerr, coerceVars, serVars, extVars>>

\* The same for a key that override_data has.
ChangeTakenFromOverride ==
    /\ combined # 0 /\ nops < MaxOps
    /\ \E i \in 1..Len(heap[combined].keys) :
          /\ HasKey(heap[csv], heap[combined].keys[i])
          /\ heap[combined].items[i].k = "ref"
          /\ \E x \in Reach(heap, {heap[combined].items[i].a}) :
                heap' = ChangeInPlace(heap, x)
    /\ nops' = nops + 1
    /\ via' = TRUE
    /\ UNCHANGED <<swapi, csv, combined, snap, ent, ret, called, seen, eerr,
                   coerceVars, serVars, extVars>>

NextMerge ==
    \/ CombineData
    \/ SetResultItem
    \/ ChangeTakenFromDefault
    \/ ChangeTakenFromOverride

SpecMerge == InitMerge /\ [][NextMerge]_vars

(***************************************************************************)
(* SpecFetch: one call of get_swapi_resource and what the server does.     *)
(***************************************************************************)
Urls == {"https://swapi.py4e.com/api/people/", "https://swapi.py4e.com/api/planets",
         "https://swapi.py4e.com/api/people/14/"}
Params == {"None", "{}", "{'page': 2}", "{'search': 'hoth'}"}
Timeouts == {"20", "5", "1"}

InitFetch ==
    /\ fcall \in [url : Urls, params : Params, timeout : Timeouts]
    /\ gets = <<>>
    /\ fout = FetchPending
    /\ CoerceIdle
    /\ SerIdle
    /\ EntIdle
    /\ MergeIdle
    /\ FilterIdle
    /\ FleetIdle
    /\ DumpIdle
    /\ MainIdle

\* get_swapi_resource(url, params, timeout) is entered and makes its
\* requests.get call.
CallGetSwapiResource ==
    /\ fout.st = "pending"
    /\ gets' = Append(gets, get_swapi_resource_request(fcall.url, fcall.params, fcall.timeout))
    /\ fout' = [st |-> "waiting", exc |-> ""]
    /\ UNCHANGED <<fcall, coerceVars, serVars, entVars, mergeVars, filterVars, fleetVars, dumpVars, mainVars>>

\* The server answers with a JSON body: response.json() gives the dict,
\* which is returned.
ResponseJson ==
    /\ fout.st = "waiting"
    /\ fout' = [st |-> "returned", exc |-> ""]
    /\ UNCHANGED <<fcall, gets, coerceVars, serVars, entVars, mergeVars, filterVars, fleetVars, dumpVars, mainVars>>

\* The server answers with a body that is not JSON: response.json() raises.
ResponseNotJson ==
    /\ fout.st = "waiting"
    /\ fout' = [st |-> "raised", exc |-> "JSONDecodeError"]
    /\ UNCHANGED <<fcall, gets, coerceVars, serVars, entVars, mergeVars, filterVars, fleetVars, dumpVars, mainVars>>

\* The connection fails: requests.get raises.
ConnectionFails ==
    /\ fout.st = "waiting"
    /\ fout' = [st |-> "raised", exc |-> "ConnectionError"]
    /\ UNCHANGED <<fcall, gets, coerceVars, serVars, entVars, mergeVars, filterVars, fleetVars, dumpVars, mainVars>>

\* The server never answers: requests.get raises Timeout when the request
\* carries a timeout, and waits for ever when it carries none.
NoResponse ==
    /\ fout.st = "waiting"
    /\ fout' = IF gets[Len(gets)].timeout # "None"
               THEN [st |-> "raised", exc |-> "Timeout"]
               ELSE [st |-> "blocked", exc |-> ""]
    /\ UNCHANGED <<fcall, gets, coerceVars, serVars, entVars, mergeVars, filterVars, fleetVars, dumpVars, mainVars>>

NextFetch ==
    \/ CallGetSwapiResource
    \/ ResponseJson
    \/ ResponseNotJson
    \/ ConnectionFails
    \/ NoResponse

SpecFetch == InitFetch /\ [][NextFetch]_vars

(***************************************************************************)
(* SpecFilter: main() 8.2, the planets file gone through record by record. *)
(***************************************************************************)
\* The population fields drawn: the markers in several spellings, numbers,
\* a near miss, the empty string and JSON null.
Populations ==
    { PStr(<<"u", "n", "k", "n", "o", "w", "n">>), PStr(<<"U", "n", "k", "n", "o", "w", "n">>),
      PStr(<<" ", "N", "/", "A", "\n">>), PStr(<<"4", "2">>), PStr(<<"0">>),
      PStr(<<"u", "n", "k", "n", "o", "w", "n", "s">>), PStr(<<>>), PNone }

\* The i-th record of the file.
PlanetRecord(i, population) ==
    [ url |-> PStr(<<"/", DigitChar(i)>>),
      name |-> PStr(<<"p", DigitChar(i)>>),
      gravity |-> PStr(<<"1">>),
      climate |-> PStr(<<"a", ",", " ", "b">>),
      terrain |-> PStr(<<"a">>),
      surface_water |-> PStr(<<"4", "2">>),
      population |-> population ]

InitFilter ==
    /\ \E pops \in SeqsUpTo(Populations, MaxPlanets) :
          swapi_planets = [i \in 1..Len(pops) |-> PlanetRecord(i, pops[i])]
    /\ idx = 0
    /\ uninhabited = <<>>
    /\ pout = FilterLooping
    /\ CoerceIdle
    /\ SerIdle
    /\ EntIdle
    /\ MergeIdle
    /\ FetchIdle
    /\ FleetIdle
    /\ DumpIdle
    /\ MainIdle

\* One pass of "for planet_dictionary in swapi_planets".
LocateUninhabited ==
    /\ pout.st = "looping"
    /\ idx < Len(swapi_planets)
    /\ LET r == locate_uninhabited(uninhabited, swapi_planets[idx + 1])
       IN  /\ uninhabited' = r.list
           /\ pout' = IF r.exc # "" THEN [st |-> "raised", exc |-> r.exc] ELSE pout
    /\ idx' = idx + 1
    /\ UNCHANGED <<swapi_planets, coerceVars, serVars, entVars, mergeVars, fetchVars, fleetVars, dumpVars, mainVars>>

\* utl.write_custom_json('sw_uninhabited_planets.json', uninhabited)
WriteUninhabited ==
    /\ pout.st = "looping"
    /\ idx = Len(swapi_planets)
    /\ pout' = [st |-> "written", exc |-> ""]
    /\ UNCHANGED <<swapi_planets, idx, uninhabited, coerceVars, serVars, entVars,
                   mergeVars, fetchVars, fleetVars, dumpVars, mainVars>>

NextFilter ==
    \/ LocateUninhabited
    \/ WriteUninhabited

SpecFilter == InitFilter /\ [][NextFilter]_vars

(***************************************************************************)
(* SpecFleet: two starships and the caller's crew dicts and manifests;     *)
(* assign_crew and assign_passengers called in any order, on any ship,     *)
(* with any of the caller's dicts and lists (the same one more than once)  *)
(* or with the dict or list of the other ship.                             *)
(***************************************************************************)
\* The heap at the start: two persons, two starships, then the caller's
\* crew dicts and manifests.
FleetStart ==
    LET p1 == Construct(<<>>, "Person")
        p2 == Construct(p1.heap, "Person")
        s1 == Construct(p2.heap, "Starship")
        s2 == Construct(s1.heap, "Starship")
    IN  [ heap |-> s2.heap \o
                     << DictCell(<<"pilot">>, <<HRef(p1.addr)>>),
                        DictCell(<<"co-pilot", "pilot">>, <<HRef(p1.addr), HRef(p2.addr)>>),
                        ListCell(<<HRef(p1.addr)>>),
                        ListCell(<<HRef(p2.addr), HRef(p1.addr)>>) >>,
          fleet |-> <<s1.addr, s2.addr>> ]

\* The dict or list the ship at address a holds in the field.
Held(h, a, field) == GetItem(h[a], field).a

\* The dicts (lists) a call on the ship at address a may be given: every
\* dict (list) but the ship's own.
CrewArgs(h, a) ==
    {x \in 1..Len(h) : h[x].k = "dict" /\ x # Held(h, a, "crew_members")}
ManifestArgs(h, a) ==
    { x \in 1..Len(h) : h[x].k = "list" /\ x # Held(h, a, "passenger_manifest")
                           /\ x # Held(h, a, "armament") }

\* The record of a call: the ship, the method, and what the object passed
\* held before and after.
CallRecord(a, method, before, after) ==
    [ ship |-> a, method |-> method,
      keys |-> before.keys, items |-> before.items,
      keysAfter |-> after.keys, itemsAfter |-> after.items ]

InitFleet ==
    /\ heap = FleetStart.heap
    /\ fleet = FleetStart.fleet
    /\ calls = <<>>
    /\ ent = 0
    /\ ret = 0
    /\ called = 0
    /\ nops = 0
    /\ seen = ObsIdle
    /\ eerr = ""
    /\ CoerceIdle
    /\ SerIdle
    /\ MergeIdle
    /\ FetchIdle
    /\ FilterIdle
    /\ DumpIdle
    /\ MainIdle

\* starship.assign_crew(crew)
FleetAssignCrew ==
    /\ nops < MaxOps
    /\ \E i \in 1..Len(fleet) : \E crew \in CrewArgs(heap, fleet[i]) :
          LET r == assign_crew(heap, fleet[i], crew)
          IN  /\ heap' = r.heap
              /\ eerr' = r.exc
              /\ calls' = Append(calls, CallRecord(fleet[i], "assign_crew",
                                                   heap[crew], r.heap[crew]))
    /\ nops' = nops + 1
    /\ UNCHANGED <<fleet, ent, ret, called, seen, coerceVars, serVars, mergeVars,
                   fetchVars, filterVars, dumpVars, mainVars>>

\* starship.assign_passengers(manifest)
FleetAssignPassengers ==
    /\ nops < MaxOps
    /\ \E i \in 1..Len(fleet) : \E manifest \in ManifestArgs(heap, fleet[i]) :
          LET r == assign_passengers(heap, fleet[i], manifest)
          IN  /\ heap' = r.heap
              /\ eerr' = r.exc
              /\ calls' = Append(calls, CallRecord(fleet[i], "assign_passengers",
                                                   heap[manifest], r.heap[manifest]))
    /\ nops' = nops + 1
    /\ UNCHANGED <<fleet, ent, ret, called, seen, coerceVars, serVars, mergeVars,
                   fetchVars, filterVars, dumpVars, mainVars>>

NextFleet ==
    \/ FleetAssignCrew
    \/ FleetAssignPassengers

SpecFleet == InitFleet /\ [][NextFleet]_vars

(***************************************************************************)
(* SpecDump: one entity of any class, changed as in SpecEnt, possibly made *)
(* to hold a value that cannot be encoded or to hold itself, and written   *)
(* with write_custom_json.                                                 *)
(***************************************************************************)
\* entity.<attribute> = set()
HoldUnsupported ==
    /\ nops < MaxOps /\ dout.st = "pending"
    /\ \E i \in 1..Len(AttrNames(heap[ent].cls)) :
          heap' = [heap EXCEPT ![ent] = SetItem(@, AttrNames(heap[ent].cls)[i], HSet)]
    /\ seen' = Changed(heap')
    /\ nops' = nops + 1
    /\ eerr' = ""
    /\ UNCHANGED <<ent, ret, called, coerceVars, serVars, mergeVars, extVars>>

\* entity.<attribute> = entity
HoldItself ==
    /\ nops < MaxOps /\ dout.st = "pending"
    /\ \E i \in 1..Len(AttrNames(heap[ent].cls)) :
          heap' = [heap EXCEPT ![ent] = SetItem(@, AttrNames(heap[ent].cls)[i], HRef(ent))]
    /\ seen' = Changed(heap')
    /\ nops' = nops + 1
    /\ eerr' = ""
    /\ UNCHANGED <<ent, ret, called, coerceVars, serVars, mergeVars, extVars>>

\* utl.write_custom_json(filepath, entity)
WriteEntity ==
    /\ dout.st = "pending"
    /\ dout' = heap_write_custom_json(heap, ent)
    /\ heap' = dout'.after
    /\ UNCHANGED <<ent, ret, called, nops, seen, eerr, coerceVars, serVars, mergeVars,
                   fetchVars, filterVars, fleetVars, mainVars>>

NextDump ==
    \/ SetField
    \/ SetFieldToList
    \/ SetUndeclared
    \/ AssignCrew
    \/ AssignPassengers
    \/ HoldUnsupported
    \/ HoldItself
    \/ WriteEntity

SpecDump == InitEnt /\ [][NextDump]_vars

(***************************************************************************)
(* SpecMain: main(), step by step, on the heap: which objects it makes,    *)
(* which it changes, and which it hands to write_custom_json.  A fetch may *)
(* fail, which ends main().                                                *)
(***************************************************************************)
notMainVars ==
    << ent, ret, called, nops, seen, eerr, coerceVars, serVars, mergeVars,
       fetchVars, filterVars, fleetVars >>

\* The objects that h2 has and h has not, or has with other content.
Diff(h, h2) == {a \in 1..Len(h2) : a > Len(h) \/ h2[a] # h[a]}

\* A step that leaves the heap h2 and the local variables e.
Step(h2, e, next) ==
    /\ heap' = h2
    /\ env' = e
    /\ pc' = next
    /\ changed' = Diff(heap, h2)
    /\ UNCHANGED <<written, dout, notMainVars>>

\* utl.write_custom_json(filepath, root)
WriteStep(root, next) ==
    /\ dout' = heap_write_custom_json(heap, root)
    /\ heap' = dout'.after
    /\ written' = written \cup Reach(heap, {root})
    /\ changed' = Diff(heap, heap')
    /\ pc' = IF dout'.st = "written" THEN next ELSE "raised"
    /\ UNCHANGED <<env, notMainVars>>

\* uninhabited = []
InitMain ==
    /\ heap = <<ListCell(<<>>)>>
    /\ env = [Unbound EXCEPT !.uninhabited = 1]
    /\ pc = "CollectPlanet"
    /\ written = {}
    /\ changed = {}
    /\ dout = DumpPending
    /\ ent = 0
    /\ ret = 0
    /\ called = 0
    /\ nops = 0
    /\ seen = ObsIdle
    /\ eerr = ""
    /\ CoerceIdle
    /\ SerIdle
    /\ MergeIdle
    /\ FetchIdle
    /\ FilterIdle
    /\ FleetIdle

\* 8.2, a record with an unknown population:
\* planet_instance = create_planet(...); uninhabited.append(planet_instance)
CollectPlanet ==
    /\ pc = "CollectPlanet"
    /\ Len(heap[env.uninhabited].items) < MaxPlanets
    /\ Then(heap_create_planet(heap, "planets/u"), LAMBDA h1, planet :
           Step([h1 EXCEPT ![env.uninhabited] = ListExtend(@, <<HRef(planet)>>)],
                [env EXCEPT !.planet_instance = planet], "CollectPlanet"))

\* 8.2: utl.write_custom_json('sw_uninhabited_planets.json', uninhabited)
MainWriteUninhabited ==
    /\ pc = "CollectPlanet"
    /\ WriteStep(env.uninhabited, "CreateLeia")

\* 8.3: leia_organa = create_person(...)
CreateLeia ==
    /\ pc = "CreateLeia"
    /\ Then(heap_create_person(heap, "planets/2"), LAMBDA h1, person :
           Step(h1, [env EXCEPT !.leia_organa = person], "WriteLeia"))

\* 8.3: utl.write_custom_json('test_leia.json', leia_organa)
WriteLeia ==
    /\ pc = "WriteLeia"
    /\ WriteStep(env.leia_organa, "CreateTestXWing")

\* 8.4: x_wing_instance = create_starship(x_wing_combined)
CreateTestXWing ==
    /\ pc = "CreateTestXWing"
    /\ Then(heap_create_starship(heap), LAMBDA h1, starship :
           Step(h1, [env EXCEPT !.x_wing_instance = starship], "WriteTestXWing"))

\* 8.4: utl.write_custom_json('test_x_wing.json', x_wing_instance)
WriteTestXWing ==
    /\ pc = "WriteTestXWing"
    /\ WriteStep(env.x_wing_instance, "ReadEchoBase")

\* 8.5: echo_base_data = utl.read_json(...); echo_base = MilitaryBase(...)
ReadEchoBase ==
    /\ pc = "ReadEchoBase"
    /\ Then(read_echo_base(heap), LAMBDA h1, data :
       Then(Construct(h1, "MilitaryBase"), LAMBDA h2, base :
           Step(h2, [env EXCEPT !.echo_base_data = data, !.echo_base = base],
                "LocateBase")))

\* 8.5.1: planet_instance = create_planet(...); planet_instance.url = ...;
\* echo_base.location = planet_instance
LocateBase ==
    /\ pc = "LocateBase"
    /\ Then(heap_create_planet(heap, "planets/4"), LAMBDA h1, planet :
           Step(SetAttrs(SetAttrs(h1, planet, <<"url">>, <<HStr("hoth")>>),
                         env.echo_base, <<"location">>, <<HRef(planet)>>),
                [env EXCEPT !.planet_instance = planet], "BuildGarrison"))

\* 8.5.1: garrison_instance = Garrison(...); its commander and personnel;
\* echo_base.garrison = garrison_instance
BuildGarrison ==
    /\ pc = "BuildGarrison"
    /\ Then(Construct(heap, "Garrison"), LAMBDA h1, garrison :
       Then(heap_create_person(h1, "planets/2"), LAMBDA h2, commander :
           Step(SetAttrs(SetAttrs(h2, garrison, <<"commander", "personnel">>,
                                  << HRef(commander),
                                     GetItem(heap[env.echo_base_data], "personnel") >>),
                         env.echo_base, <<"garrison">>, <<HRef(garrison)>>),
                [env EXCEPT !.garrison_instance = garrison], "DescribeBase")))

\* 8.5.1: echo_base_data['air_space_assets'][i]['model'] = ...;
\* echo_base.operational_status, facilities, fixed_defenses, air_space_assets
DescribeBase ==
    /\ pc = "DescribeBase"
    /\ LET data == heap[env.echo_base_data]
           assets == heap[GetItem(data, "air_space_assets").a]
           named == [heap EXCEPT ![assets.items[1].a] = SetItem(@, "model", HStr("T-65 X-wing"))]
       IN  Step(SetAttrs(named, env.echo_base,
                         << "operational_status", "facilities", "fixed_defenses",
                            "air_space_assets" >>,
                         << HStr("active"), GetItem(data, "facilities"),
                            GetItem(data, "fixed_defenses"), GetItem(data, "air_space_assets") >>),
                env, "BuildPlan")

\* 8.5.2: evac_plan_instance = EvacuationPlan(...) and its fields
BuildPlan ==
    /\ pc = "BuildPlan"
    /\ Then(Construct(heap, "EvacuationPlan"), LAMBDA h1, plan :
           Step(SetAttrs(h1, plan,
                         << "classification", "year_era", "description",
                            "passenger_overload_multiplier", "transport_assignments",
                            "transport_escorts" >>,
                         << HStr("top secret"), HStr("3 ABY"), HStr("plan"), HInt("3"),
                            GetItem(heap[env.echo_base_data],
                                    "transport_passenger_assignments"),
                            GetItem(heap[env.echo_base_data], "transport_escorts") >>),
                [env EXCEPT !.evac_plan_instance = plan], "BuildTransport"))

\* 8.5.3: gr_75_instance = create_starship(gr_75_combined)
BuildTransport ==
    /\ pc = "BuildTransport"
    /\ Then(heap_create_starship(heap), LAMBDA h1, starship :
           Step(h1, [env EXCEPT !.gr_75_instance = starship], "CrewTransport"))

\* 8.5.3: crew1 = {...}; gr_75_instance.assign_crew(crew1)
CrewTransport ==
    /\ pc = "CrewTransport"
    /\ Then(heap_crew(heap, <<"pilot", "co-pilot", "navigator">>,
                      <<"planets/9", "planets/9", "planets/6">>, <<>>), LAMBDA h1, crew :
           Step(assign_crew(h1, env.gr_75_instance, crew).heap,
                [env EXCEPT !.crew = crew], "BoardTransport"))

\* 8.5.3: manifest = [leia_organa, C_3PO_person];
\* gr_75_instance.assign_passengers(manifest)
BoardTransport ==
    /\ pc = "BoardTransport"
    /\ Then(heap_create_person(heap, "planets/1"), LAMBDA h1, c_3po :
       Then(Done(Append(h1, ListCell(<<HRef(env.leia_organa), HRef(c_3po)>>)), Len(h1) + 1),
            LAMBDA h2, manifest :
           Step(assign_passengers(h2, env.gr_75_instance, manifest).heap,
                [env EXCEPT !.manifest = manifest], "AssignTransport")))

\* 8.5.3: evac_plan_instance.transport_assignments.append(gr_75_instance)
AssignTransport ==
    /\ pc = "AssignTransport"
    /\ Step(append_to(heap, env.evac_plan_instance, "transport_assignments",
                      HRef(env.gr_75_instance)),
            env, "BuildXWing")

\* 8.5.4: x_wing_instance = create_starship(x_wing_combined)
BuildXWing ==
    /\ pc = "BuildXWing"
    /\ Then(x_wing_starship(heap, env.x_wing_instance), LAMBDA h1, starship :
           Step(h1, [env EXCEPT !.x_wing_instance = starship], "CrewXWing"))

\* 8.5.4: crew2 = {...}; x_wing_instance.assign_crew(crew2)
CrewXWing ==
    /\ pc = "CrewXWing"
    /\ Then(heap_crew(heap, <<"pilot", "astromech_droid">>,
                      <<"planets/1", "planets/8">>, <<>>), LAMBDA h1, crew :
           Step(assign_crew(h1, env.x_wing_instance, crew).heap,
                [env EXCEPT !.crew = crew], "EscortXWing"))

\* 8.5.4: evac_plan_instance.transport_escorts.append(x_wing_instance)
EscortXWing ==
    /\ pc = "EscortXWing"
    /\ Step(append_to(heap, env.evac_plan_instance, "transport_escorts",
                      HRef(env.x_wing_instance)),
            env, "BuildFalcon")

\* 8.5.5: mill_falcon_instance = create_starship(mill_falcon_combined)
BuildFalcon ==
    /\ pc = "BuildFalcon"
    /\ Then(heap_create_starship(heap), LAMBDA h1, starship :
           Step(h1, [env EXCEPT !.mill_falcon_instance = starship], "CrewFalcon"))

\* 8.5.5: crew3 = {...}; mill_falcon_instance.assign_crew(crew3)
CrewFalcon ==
    /\ pc = "CrewFalcon"
    /\ Then(heap_crew(heap, <<"pilot", "co-pilot">>,
                      <<"planets/22", "planets/14">>, <<>>), LAMBDA h1, crew :
           Step(assign_crew(h1, env.mill_falcon_instance, crew).heap,
                [env EXCEPT !.crew = crew], "EscortFalcon"))

\* 8.5.5: evac_plan_instance.transport_escorts.append(mill_falcon_instance)
EscortFalcon ==
    /\ pc = "EscortFalcon"
    /\ Step(append_to(heap, env.evac_plan_instance, "transport_escorts",
                      HRef(env.mill_falcon_instance)),
            env, "CompletePlan")

\* 8.5.6: the counts of the plan; echo_base.evacuation_plan = evac_plan_instance
CompletePlan ==
    /\ pc = "CompletePlan"
    /\ LET counted == SetAttrs(heap, env.evac_plan_instance,
                               << "garrison_personnel_count", "num_available_transports",
                                  "max_passenger_overload_capacity" >>,
                               <<HInt("1"), HInt("30"), HInt("8100")>>)
       IN  Step(SetAttrs(counted, env.echo_base, <<"evacuation_plan">>,
                         <<HRef(env.evac_plan_instance)>>),
                env, "WriteBase")

\* 8.5.7: utl.write_custom_json('sw_echo_base-v1p1.json', echo_base)
WriteBase ==
    /\ pc = "WriteBase"
    /\ WriteStep(env.echo_base, "done")

\* The steps that begin with utl.get_swapi_resource(...).
Fetching ==
    { "CreateLeia", "CreateTestXWing", "LocateBase", "BuildTransport", "BoardTransport",
      "BuildXWing", "CrewXWing", "BuildFalcon", "CrewFalcon" }

\* utl.get_swapi_resource raises: main() ends there.
FetchRaises ==
    /\ pc \in Fetching
    /\ pc' = "raised"
    /\ changed' = {}
    /\ UNCHANGED <<heap, env, written, dout, notMainVars>>

NextMain ==
    \/ CollectPlanet
    \/ MainWriteUninhabited
    \/ CreateLeia
    \/ WriteLeia
    \/ CreateTestXWing
    \/ WriteTestXWing
    \/ ReadEchoBase
    \/ LocateBase
    \/ BuildGarrison
    \/ DescribeBase
    \/ BuildPlan
    \/ BuildTransport
    \/ CrewTransport
    \/ BoardTransport
    \/ AssignTransport
    \/ BuildXWing
    \/ CrewXWing
    \/ EscortXWing
    \/ BuildFalcon
    \/ CrewFalcon
    \/ EscortFalcon
    \/ CompletePlan
    \/ WriteBase
    \/ FetchRaises

SpecMain == InitMain /\ [][NextMain]_vars

(***************************************************************************)
(* Claims about the serializer (checked under SpecSer).                    *)
(***************************************************************************)
\* v resolves to primitives, mappings and sequences: every object met on
\* the way through sequences, mappings and jsonable() results has a callable
\* jsonable.
RECURSIVE Resolvable(_)
Resolvable(v) ==
    CASE v.k \in {"str", "int", "bool", "none"} -> TRUE
      [] v.k \in {"list", "tuple", "dict"} ->
            \A i \in 1..Len(v.items) : Resolvable(v.items[i])
      [] v.k = "obj" -> v.s = "callable" /\ Resolvable(v.items[1])
      [] OTHER -> FALSE

\* v with every object replaced by the mapping its jsonable() returns.
RECURSIVE Expand(_)
Expand(v) ==
    CASE v.k = "obj" -> Expand(v.items[1])
      [] v.k \in {"list", "tuple", "dict"} ->
            [v EXCEPT !.items = [i \in 1..Len(v.items) |-> Expand(v.items[i])]]
      [] OTHER -> v

\* The JSON document of a value made of primitives, mappings and sequences.
RECURSIVE PlainJson(_)
PlainJson(v) ==
    CASE v.k = "dict" ->
            DObject(v.keys, [i \in 1..Len(v.items) |-> PlainJson(v.items[i])])
      [] v.k \in {"list", "tuple"} ->
            DArray([i \in 1..Len(v.items) |-> PlainJson(v.items[i])])
      [] v.k = "str" -> DString(v.s)
      [] v.k = "int" -> DNumber(v.s)
      [] v.k = "bool" -> DLiteral(v.s)
      [] v.k = "none" -> DLiteral("null")

\* C1: for a value built from primitives, mappings, sequences and objects
\* with a callable jsonable(), to any depth, the document written is the
\* value with every object replaced by the mapping its jsonable() returns:
\* each object becomes a JSON object with that mapping's keys and values,
\* whatever other fields the object holds.
C1_DocumentIsExpansion ==
    sout.st # "pending" /\ Resolvable(sval) =>
        /\ sout.st = "written"
        /\ sout.doc = PlainJson(Expand(sval))

\* C1 witness: a list holding an object was written; the object's
\* jsonable() result holds a second object, and the first object's own
\* fields are not the fields jsonable() returns.
C1_Witness ==
    /\ sout.st = "written"
    /\ sval.k = "list"
    /\ Len(sval.items) = 1
    /\ sval.items[1].k = "obj"
    /\ sval.items[1].items[1] # sval.items[1].items[2]
    /\ Len(sval.items[1].items[1].items) = 2
    /\ sval.items[1].items[1].items[2].k = "obj"
    /\ sout.doc.items[1].k = "object"
    /\ sout.doc.items[1].keys = <<"url", "name">>
    /\ sout.doc.items[1].items[2].k = "object"

\* C2: when the value, or a value nested in it at any depth (through
\* sequences, mappings and jsonable() results), is neither a primitive, a
\* mapping, a sequence nor an object with a callable jsonable, the call
\* raises the encoder's unsupported-type error (Python's TypeError, the
\* spec's SerializationError) and does not return.
C2_UnsupportedRaises ==
    sout.st # "pending" /\ ~Resolvable(sval) =>
        /\ sout.st = "raised"
        /\ sout.exc = "TypeError"

\* C2 witness: an object whose jsonable attribute is not callable, two
\* levels down (in a list under a key), made the call raise.
C2_Witness ==
    /\ sout.st = "raised"
    /\ sval.k = "dict"
    /\ Len(sval.items) = 1
    /\ sval.items[1].k = "list"
    /\ Len(sval.items[1].items) = 2
    /\ sval.items[1].items[1].k = "str"
    /\ sval.items[1].items[2].k = "obj"
    /\ sval.items[1].items[2].s = "notcallable"

(***************************************************************************)
(* Claims about the entities' jsonable() (checked under SpecEnt).          *)
(***************************************************************************)
\* C3: for every entity class, two jsonable() calls on an object that was
\* not changed in between return structurally equal mappings, and changing
\* the first mapping's keys (adding, removing, replacing them) does not
\* change what the second call returns.
C3_FreshMappingPerCall ==
    called = 2 /\ eerr = "" /\ ~seen.touched /\ ~seen.reached =>
        seen.last = seen.first

\* C3 witness: the mapping of the first call had its keys changed, and the
\* second call on the unchanged entity returned an equal mapping all the
\* same, which is not the changed one.
C3_Witness ==
    /\ called = 2
    /\ eerr = ""
    /\ seen.tampered
    /\ ~seen.touched
    /\ ~seen.reached
    /\ seen.last = seen.first
    /\ seen.last = LookMapping(heap, ret)
    /\ \E a \in 1..Len(heap) :
          heap[a].k = "dict" /\ heap[a].keys # heap[ret].keys
              /\ (HasKey(heap[a], "extra") \/ Len(heap[a].keys) < Len(heap[ret].keys))

\* C4 as stated: the mapping jsonable() returns holds no live reference to
\* the entity's storage. Nothing done to a list or dict reached through the
\* mapping changes the entity's fields (they are as the entity's own
\* operations left them) or what a later jsonable() returns.
C4_NoLiveReference ==
    /\ ent # 0 => LookMapping(heap, ent) = seen.base
    /\ called = 2 /\ eerr = "" /\ ~seen.touched => seen.last = seen.first

\* C5: whatever was assigned to the entity (declared attributes or not) and
\* whatever crew and passengers it was given, jsonable() returns a mapping
\* whose keys are exactly the attributes the class documents, each once,
\* and in the same order on every call.
C5_DocumentedKeys ==
    called > 0 /\ eerr = "" =>
        /\ {seen.last.keys[i] : i \in 1..Len(seen.last.keys)} = DocAttrs(heap[ent].cls)
        /\ Len(seen.last.keys) = Cardinality(DocAttrs(heap[ent].cls))
        /\ seen.last.keys = seen.first.keys

\* C5 witness: an entity that was given an attribute its class does not
\* declare was asked twice, the second time after a further change.
C5_Witness ==
    /\ called = 2
    /\ eerr = ""
    /\ HasKey(heap[ent], "callsign")
    /\ seen.touched
    /\ Len(seen.last.keys) = Cardinality(DocAttrs(heap[ent].cls))

(***************************************************************************)
(* Claims about combine_data (checked under SpecMerge).                    *)
(***************************************************************************)
KeySet(c) == {c.keys[i] : i \in 1..Len(c.keys)}

\* C6: combine_data(base, override) returns a new mapping whose keys are
\* the union of both key sets, holding override's value for every key of
\* override (a nested mapping of base under such a key is replaced whole)
\* and, for every other key, a deep copy of base's value: equal to it and
\* sharing no object with base.  base is as it was after the call, and stays
\* so when values the result took from base are changed in place.
C6_MergeIsDeepCopyThenOverride ==
    /\ swapi # 0 /\ ~via => Look(heap, HRef(swapi)) = snap
    /\ combined # 0 =>
          /\ heap[combined].k = "dict"
          /\ combined \notin Reach(heap, {swapi, csv})
    /\ combined # 0 /\ nops = 0 =>
          /\ KeySet(heap[combined]) = KeySet(heap[swapi]) \cup KeySet(heap[csv])
          /\ Len(heap[combined].keys) = Cardinality(KeySet(heap[combined]))
          /\ \A key \in KeySet(heap[csv]) :
                GetItem(heap[combined], key) = GetItem(heap[csv], key)
          /\ \A key \in KeySet(heap[swapi]) \ KeySet(heap[csv]) :
                LET mine == GetItem(heap[combined], key)
                    theirs == GetItem(heap[swapi], key)
                IN  /\ Look(heap, mine) = Look(heap, theirs)
                    /\ theirs.k = "ref" =>
                          /\ mine.k = "ref"
                          /\ Reach(heap, {mine.a}) \cap Reach(heap, {swapi, csv}) = {}

\* C6 witness: base held a dict under "b" and override a number, which the
\* result holds instead; the nested value the result took from base under
\* "a" was then changed in place and no longer equals base's, which is as
\* it was before the call.
C6_Witness ==
    /\ combined # 0
    /\ nops > 0
    /\ ~via
    /\ HasKey(heap[swapi], "a") /\ HasKey(heap[swapi], "b")
    /\ ~HasKey(heap[csv], "a") /\ HasKey(heap[csv], "b")
    /\ HasKey(heap[combined], "a") /\ HasKey(heap[combined], "b")
    /\ GetItem(heap[swapi], "b").k = "ref"
    /\ heap[GetItem(heap[swapi], "b").a].k = "dict"
    /\ GetItem(heap[csv], "b").k = "int"
    /\ GetItem(heap[combined], "b") = GetItem(heap[csv], "b")
    /\ GetItem(heap[combined], "a").k = "ref"
    /\ Look(heap, GetItem(heap[combined], "a")) # Look(heap, GetItem(heap[swapi], "a"))
    /\ Look(heap, HRef(swapi)) = snap

(***************************************************************************)
(* Claims about the coercion helpers (checked under SpecCoerce).           *)
(***************************************************************************)
Converters == {"convert_str_to_float", "convert_str_to_int", "convert_str_to_list"}

\* The built-in conversion the finished call wrapped.
BuiltinOutcome ==
    CASE cout.fn = "convert_str_to_float" -> PyFloat(cin)
      [] cout.fn = "convert_str_to_int" -> PyInt(cin)
      [] cout.fn = "convert_str_to_list" -> PySplit(cin, cout.delim)

\* C7: the three converters are total. Whatever the input's type and
\* whatever the delimiter, the call returns and never raises; and when the
\* conversion does not apply (the built-in conversion fails) the value
\* returned is the input itself.
C7_ConvertersTotal ==
    cout.fn \in Converters =>
        /\ cout.st = "returned"
        /\ BuiltinOutcome.exc # "" => cout.val = cin
        /\ BuiltinOutcome.exc = "" => cout.val = BuiltinOutcome.val

\* C7 witness: a converter was handed None, the conversion failed with a
\* TypeError or AttributeError, and None came back.
C7_Witness ==
    /\ cout.fn \in Converters
    /\ cin = PNone
    /\ BuiltinOutcome.exc \in {"TypeError", "AttributeError"}
    /\ cout.st = "returned"
    /\ cout.val = PNone

\* s without its surrounding whitespace: from its first to its last
\* character that is not whitespace.
Trim(s) ==
    LET solid == {i \in 1..Len(s) : s[i] \notin Whitespace}
        first == CHOOSE i \in solid : \A j \in solid : i <= j
        last == CHOOSE i \in solid : \A j \in solid : j <= i
    IN  IF solid = {} THEN <<>> ELSE SubSeq(s, first, last)

\* The number a run of digits denotes: units, tens, hundreds from the right.
RECURSIVE PlaceValue(_)
PlaceValue(s) ==
    IF s = <<>> THEN 0
    ELSE DigitVal(s[Len(s)]) + 10 * PlaceValue(SubSeq(s, 1, Len(s) - 1))

Unsigned(s) == IF s # <<>> /\ s[1] \in {"-", "+"} THEN Tail(s) ELSE s

\* s is a base-10 integer literal: digits, with an optional sign before.
IsIntLiteral(s) ==
    /\ Unsigned(s) # <<>>
    /\ \A i \in 1..Len(Unsigned(s)) : Unsigned(s)[i] \in Digits

LiteralValue(s) ==
    IF s[1] = "-" THEN 0 - PlaceValue(Unsigned(s)) ELSE PlaceValue(Unsigned(s))

\* Python's ==, as far as the model's values go: numbers of different
\* types are equal when they denote the same number (True == 1, 3.0 == 3).
SameValue(a, b) ==
    \/ a = b
    \/ /\ a.k \in {"int", "bool", "float"}
       /\ b.k \in {"int", "bool", "float"}
       /\ a.n * Pow10(b.e) = b.n * Pow10(a.e)

\* C8 as stated: convert_str_to_int returns n when the input is a base-10
\* integer literal for n and returns every other input unchanged; no
\* fractional input is truncated or rounded.
C8_Original ==
    cout.fn = "convert_str_to_int" =>
        /\ cout.st = "returned"
        /\ IF cin.k = "str" /\ IsIntLiteral(cin.s)
           THEN cout.val = PInt(LiteralValue(cin.s))
           ELSE SameValue(cout.val, cin)

\* C8 amended: for a string, n comes back when the string with its
\* surrounding whitespace trimmed is a base-10 integer literal for n, and
\* every other string comes back unchanged (so "4.2" stays "4.2"). An int
\* comes back as it is, a boolean as 0 or 1, a finite float truncated
\* toward zero; None, nan, inf, sequences, mappings and objects unchanged.
C8_IntOrUnchanged ==
    cout.fn = "convert_str_to_int" =>
        /\ cout.st = "returned"
        /\ CASE cin.k = "str" ->
                  IF IsIntLiteral(Trim(cin.s))
                  THEN cout.val = PInt(LiteralValue(Trim(cin.s)))
                  ELSE cout.val = cin
             [] cin.k = "int" -> cout.val = cin
             [] cin.k = "bool" -> cout.val = PInt(cin.n)
             [] cin.k = "float" ->
                  /\ cout.val.k = "int"
                  /\ cin.n >= 0 =>
                        /\ cout.val.n * Pow10(cin.e) <= cin.n
                        /\ cin.n < (cout.val.n + 1) * Pow10(cin.e)
                  /\ cin.n < 0 =>
                        /\ cin.n <= cout.val.n * Pow10(cin.e)
                        /\ (cout.val.n - 1) * Pow10(cin.e) < cin.n
             [] OTHER -> cout.val = cin

\* C8 witness: a string with a decimal point between digits was handed in
\* and came back unchanged.
C8_Witness ==
    /\ cout.fn = "convert_str_to_int"
    /\ cout.st = "returned"
    /\ cin = PStr(<<"4", ".", "2">>)
    /\ cout.val = cin

\* The pieces with the delimiter put back between them.
RECURSIVE Join(_, _)
Join(pieces, sep) ==
    IF pieces = <<>> THEN <<>>
    ELSE IF Len(pieces) = 1 THEN pieces[1].s
    ELSE pieces[1].s \o sep \o Join(Tail(pieces), sep)

Contains(s, sep) ==
    \E i \in 1..(Len(s) - Len(sep) + 1) : SubSeq(s, i, i + Len(sep) - 1) = sep

\* The result is the input string cut at the delimiter.
IsSplitOf(result, s, sep) ==
    /\ result.k = "list"
    /\ Len(result.items) >= 1
    /\ \A i \in 1..Len(result.items) :
          result.items[i].k = "str" /\ ~Contains(result.items[i].s, sep)
    /\ Join(result.items, sep) = s
    /\ ~Contains(s, sep) => Len(result.items) = 1

\* The result is the input string's words: its maximal runs of characters
\* that are not whitespace, in order.
IsWordsOf(result, s) ==
    LET starts == {i \in 1..Len(s) :
                      s[i] \notin Whitespace /\ (i = 1 \/ s[i - 1] \in Whitespace)}
    IN  /\ result.k = "list"
        /\ Len(result.items) = Cardinality(starts)
        /\ \A i \in 1..Len(result.items) :
              /\ result.items[i].k = "str"
              /\ result.items[i].s # <<>>
              /\ \A j \in 1..Len(result.items[i].s) :
                    result.items[i].s[j] \notin Whitespace
        /\ Join(result.items, <<>>) = SelectSeq(s, LAMBDA c : c \notin Whitespace)

\* C9 as stated: for every string and every (string) delimiter the result
\* is the sequence of substrings between the delimiters; for a value that
\* cannot be split the result is the input.
C9_Original ==
    cout.fn = "convert_str_to_list" =>
        /\ cin.k = "str" /\ cout.delim.k = "str" =>
              IsSplitOf(cout.val, cin.s, cout.delim.s)
        /\ cin.k # "str" => cout.val = cin

\* C9 amended: for every string and every non-empty string delimiter the
\* result is the sequence of substrings between the delimiters (joined
\* with the delimiter they give the string back, none holds the delimiter,
\* and there is one when the string does not hold it). With the empty
\* string, or a delimiter that is neither a string nor null, the string
\* comes back unchanged; with a null delimiter its whitespace-separated
\* words come back. A value that cannot be split comes back unchanged.
C9_SplitOrUnchanged ==
    cout.fn = "convert_str_to_list" =>
        /\ cout.st = "returned"
        /\ CASE cin.k # "str" -> cout.val = cin
             [] cin.k = "str" /\ cout.delim.k = "str" /\ cout.delim.s # <<>> ->
                  IsSplitOf(cout.val, cin.s, cout.delim.s)
             [] cin.k = "str" /\ cout.delim.k = "none" ->
                  IsWordsOf(cout.val, cin.s)
             [] OTHER -> cout.val = cin

\* C9 witness: a string was cut into three pieces at a two-character
\* delimiter.
C9_Witness ==
    /\ cout.fn = "convert_str_to_list"
    /\ cin.k = "str"
    /\ cout.delim = PStr(<<",", " ">>)
    /\ cout.val.k = "list"
    /\ Len(cout.val.items) = 3

C10_Tokens == {<<"u", "n", "k", "n", "o", "w", "n">>, <<"n", "/", "a">>}

SameIgnoringCase(a, b) ==
    /\ Len(a) = Len(b)
    /\ \A i \in 1..Len(a) : UpperChar(a[i]) = UpperChar(b[i])

\* C10: for every string, is_unknown returns a boolean, and returns True
\* exactly when the string, trimmed of surrounding whitespace and compared
\* without regard to letter case, is "unknown" or "n/a".
C10_UnknownIffToken ==
    cout.fn = "is_unknown" /\ cin.k = "str" =>
        /\ cout.st = "returned"
        /\ cout.val.k = "bool"
        /\ cout.val.n = 1 <=> \E t \in C10_Tokens : SameIgnoringCase(Trim(cin.s), t)

\* C10 witness: a padded token with an upper-case letter was classified
\* as unknown.
C10_Witness ==
    /\ cout.fn = "is_unknown"
    /\ cin.k = "str"
    /\ Len(cin.s) > 0
    /\ cin.s[1] \in Whitespace
    /\ \E i \in 1..Len(cin.s) : cin.s[i] = "U"
    /\ cout.val = PBool(TRUE)

\* The exceptions of Python's TypeError class: TypeError and its subclasses
\* (AttributeError is not one of them).
C11_TypeErrorClass == {"TypeError"}

\* C11 as stated: called with a value that is not a string (None, a number,
\* a boolean, a list, a dict, an object), is_unknown fails with an error of
\* the TypeError class.
C11_Original ==
    cout.fn = "is_unknown" /\ cin.k # "str" =>
        /\ cout.st = "raised"
        /\ cout.exc \in C11_TypeErrorClass

\* C11: called with a value that is not a string, is_unknown raises
\* AttributeError (the value has no lower()), which reaches the caller: it
\* returns no boolean and does not coerce the value.
C11_NonStringRaises ==
    cout.fn = "is_unknown" /\ cin.k # "str" =>
        /\ cout.st = "raised"
        /\ cout.exc = "AttributeError"
        /\ cout.val = PNone

\* C11 witness: is_unknown was called with a number and raised.
C11_Witness ==
    /\ cout.fn = "is_unknown"
    /\ cin.k = "int"
    /\ cout.st = "raised"
    /\ cout.exc = "AttributeError"

(***************************************************************************)
(* Claims about get_swapi_resource (checked under SpecFetch).              *)
(***************************************************************************)
\* C15 as stated: every GET that get_swapi_resource issues, with or without
\* query parameters, carries the function's timeout argument as its
\* deadline, and each call issues exactly one GET, whatever the outcome.
C15_DeadlineOnEveryGet ==
    /\ \A i \in 1..Len(gets) : gets[i].timeout = fcall.timeout
    /\ Len(gets) <= 1
    /\ fout.st # "pending" => Len(gets) = 1

(***************************************************************************)
(* Claims about the uninhabited-planet filter (checked under SpecFilter).  *)
(***************************************************************************)
\* The value is an unknown marker: a string that, trimmed and compared
\* without regard to case, is "unknown" or "n/a".
C14_IsMarker(v) ==
    v.k = "str" /\ \E t \in C10_Tokens : SameIgnoringCase(Trim(v.s), t)

\* The positions, among the first n records, of those whose population is
\* a marker, in file order.
RECURSIVE C14_Marked(_)
C14_Marked(n) ==
    IF n = 0 THEN <<>>
    ELSE IF C14_IsMarker(swapi_planets[n].population)
    THEN Append(C14_Marked(n - 1), n)
    ELSE C14_Marked(n - 1)

\* C14: the list holds one Planet for each record gone through whose
\* population is an unknown marker (in any case, with any padding), in file
\* order, and none for a record with another population; the list is
\* written only after every record was gone through.  (A population that
\* is not a string ends main() with is_unknown's exception.)
C14_UninhabitedIffUnknown ==
    LET done == IF pout.st = "raised" THEN idx - 1 ELSE idx
        want == C14_Marked(done)
    IN  /\ Len(uninhabited) = Len(want)
        /\ \A j \in 1..Len(want) :
              /\ uninhabited[j].url = swapi_planets[want[j]].url
              /\ uninhabited[j].name = swapi_planets[want[j]].name
              /\ uninhabited[j].population = swapi_planets[want[j]].population
        /\ pout.st = "written" => idx = Len(swapi_planets)
        /\ pout.st = "raised" => swapi_planets[idx].population.k # "str"

\* C14 witness: of three records the first and the third have a marker as
\* population, one of them padded and in upper case, the second a number;
\* the list written holds the first and the third, in that order.
C14_Witness ==
    /\ pout.st = "written"
    /\ Len(swapi_planets) = 3
    /\ swapi_planets[1].population = PStr(<<" ", "N", "/", "A", "\n">>)
    /\ swapi_planets[2].population = PStr(<<"4", "2">>)
    /\ swapi_planets[3].population = PStr(<<"u", "n", "k", "n", "o", "w", "n">>)
    /\ Len(uninhabited) = 2
    /\ uninhabited[1].name = PStr(<<"p", "1">>)
    /\ uninhabited[2].name = PStr(<<"p", "3">>)
    /\ uninhabited[2].climate = PList(<<PStr(<<"a">>), PStr(<<"b">>)>>)

(***************************************************************************)
(* Claims about assign_crew / assign_passengers (checked under SpecFleet). *)
(***************************************************************************)
\* A mapping as its set of (key, value) pairs.
C16_Pairs(keys, items) == {<<keys[i], items[i]>> : i \in 1..Len(keys)}

\* The right-biased union: new's pairs, and old's for the keys new lacks.
C16_Union(old, new) ==
    {p \in old : \A q \in new : q[1] # p[1]} \cup new

\* The crew of the ship after the first n calls, by the claim.
RECURSIVE C16_Crew(_, _)
C16_Crew(a, n) ==
    IF n = 0 THEN {}
    ELSE IF calls[n].ship = a /\ calls[n].method = "assign_crew"
    THEN C16_Union(C16_Crew(a, n - 1), C16_Pairs(calls[n].keys, calls[n].items))
    ELSE C16_Crew(a, n - 1)

\* The manifest of the ship after the first n calls, by the claim.
RECURSIVE C16_Manifest(_, _)
C16_Manifest(a, n) ==
    IF n = 0 THEN <<>>
    ELSE IF calls[n].ship = a /\ calls[n].method = "assign_passengers"
    THEN C16_Manifest(a, n - 1) \o calls[n].items
    ELSE C16_Manifest(a, n - 1)

C17_WriteIsReadOnly ==
    dout.st # "pending" =>
        /\ Len(dout.after) >= Len(dout.before)
        /\ \A a \in 1..Len(dout.before) : dout.after[a] = dout.before[a]

\* C17 witness: a starship with a person in its crew held a value that
\* cannot be encoded; the call raised after jsonable() had been called, and
\* the starship is as it was.
C17_Witness ==
    /\ dout.st = "raised"
    /\ dout.exc = "TypeError"
    /\ ent # 0
    /\ heap[ent].cls = "Starship"
    /\ GetItem(heap[ent], "crew_members").k = "ref"
    /\ heap[Held(heap, ent, "crew_members")].keys # <<>>
    /\ Len(dout.after) > Len(dout.before)
    /\ dout.after[ent] = dout.before[ent]

(***************************************************************************)
(* Claims about main() (checked under SpecMain).                           *)
(***************************************************************************)
\* C12: in main(), nothing that was reachable from a value handed to
\* write_custom_json (an entity, an entity inside it, a list or dict it
\* holds) is changed by a later step: no field assigned, no assign_crew or
\* assign_passengers on it, no list or dict of it changed.
C12_NoMutationAfterWrite == written \cap changed = {}

\* C12 witness: the X-wing of 8.4 was written; the step that assigns a crew
\* to x_wing_instance in 8.5.4 has just changed the crew of another, new
\* starship, and Leia, written in 8.3, is in the transport's manifest as
\* she was.
C12_Witness ==
    /\ pc = "EscortXWing"
    /\ env.x_wing_instance \notin written
    /\ Held(heap, env.x_wing_instance, "crew_members") \in changed
    /\ \E a \in written : heap[a].k = "inst" /\ heap[a].cls = "Starship"
    /\ env.leia_organa \in written
    /\ \E i \in 1..Len(heap[Held(heap, env.gr_75_instance, "passenger_manifest")].items) :
          heap[Held(heap, env.gr_75_instance, "passenger_manifest")].items[i]
              = HRef(env.leia_organa)

\* The entities on the heap.
C13_Entities == {a \in 1..Len(heap) : heap[a].k = "inst"}

\* The objects reached from the addresses S through lists and dicts only.
RECURSIVE C13_Through(_)
C13_Through(S) ==
    LET N == S \cup Refs(heap, {a \in S : heap[a].k \in {"list", "dict"}})
    IN  IF N = S THEN S ELSE C13_Through(N)

\* The entities the entity x owns: those its fields hold, directly or in a
\* list or dict.
C13_Owned(x) == C13_Through(Refs(heap, {x})) \cap C13_Entities

\* C13: at every step of main() the entities form a tree: no entity is
\* reachable from its own fields, no entity is owned by two entities, and
\* the serialization of the base at the end completes.
C13_TreeShaped ==
    /\ \A x \in C13_Entities : x \notin Reach(heap, Refs(heap, {x}))
    /\ \A y \in C13_Entities :
          Cardinality({x \in C13_Entities : y \in C13_Owned(x)}) <= 1
    /\ pc = "done" => dout.st = "written"

\* C13 witness: main() is done; the base owns its garrison and its plan,
\* the plan the three starships, the transport Leia, and Leia her
\* homeworld.
C13_Witness ==
    /\ pc = "done"
    /\ dout.st = "written"
    /\ {env.garrison_instance, env.evac_plan_instance} \subseteq C13_Owned(env.echo_base)
    /\ {env.gr_75_instance, env.x_wing_instance, env.mill_falcon_instance}
          \subseteq C13_Owned(env.evac_plan_instance)
    /\ env.leia_organa \in C13_Owned(env.gr_75_instance)
    /\ GetItem(heap[env.leia_organa], "homeworld").a \in C13_Owned(env.leia_organa)

=============================================================================
